---- MODULE Spec2Model ----
(***************************************************************************)
(* Release Synchronization Engine of the Firebase Android release          *)
(* dashboard: the Cloud Functions handlers (functions/handlers),           *)
(* the Firestore gateway (functions/database), the GitHub adapter           *)
(* (functions/github) and the pure helpers (functions/utils).              *)
(*                                                                         *)
(* Strings that the code takes apart (library names, document ids, commit  *)
(* messages) are sequences of one-character strings.  Every read and every *)
(* write of the store that syncReleaseState awaits is a step of its own,   *)
(* so that what a reader of the store can see between two writes is a      *)
(* state of the model.                                                     *)
(***************************************************************************)
EXTENDS Integers, Sequences, FiniteSets, Bags, TLC

VARIABLES
  now,           \* wall clock read by new Date(), in milliseconds
  host,          \* the source host: branch name -> what the repository holds
  releases,      \* collection "releases":   release id -> document
  libraries,     \* collection "libraries":  document id -> document
  changes,       \* collection "changes":    commit id -> document
  checks,        \* collection "checks":     check-run id -> document
  releaseError,  \* collection "releaseError": the bag of its documents
  usedIds,       \* release ids db.collection("releases").doc() has handed out
  req,           \* the HTTP request being handled, or the last one's response
  del,           \* the deleteRelease request being handled
  sync,          \* the invocations of syncReleaseState: task -> its frame
  last,          \* history: the release whose full sync, on a refreshRelease
                 \* request, is the last thing that happened but for the
                 \* clock, or ""
  call,          \* a function of utils or github called on its own, as the
                 \* unit tests call it: its arguments and what it returned
  held,          \* the releases of an addReleases request that has found
                 \* their names free and has not written them yet, while
                 \* another request is handled; <<>> when there is none
  stopped        \* history: the last invocation of syncReleaseState that a
                 \* rejection of the store ended after its libraries were
                 \* committed: its release, the store, the clock and the
                 \* repository it was called with

vars == <<now, host, releases, libraries, changes, checks, releaseError,
          usedIds, req, del, sync, last, call, held, stopped>>

store == <<releases, libraries, changes, checks, releaseError>>

(***************************************************************************)
(* Strings                                                                 *)
(***************************************************************************)
Range(s) == {s[i] : i \in DOMAIN s}

\* sub occurs in s starting at index i
OccursAt(s, sub, i) ==
  /\ i >= 1
  /\ i + Len(sub) - 1 <= Len(s)
  /\ \A k \in 1..Len(sub) : s[i + k - 1] = sub[k]

\* String.prototype.includes
Includes(s, sub) == \E i \in 1..(Len(s) + 1) : OccursAt(s, sub, i)

\* String.prototype.endsWith
EndsWith(s, sub) == OccursAt(s, sub, Len(s) - Len(sub) + 1)

RECURSIVE ReplaceAllFrom(_, _, _, _)
ReplaceAllFrom(s, sub, rep, i) ==
  IF i > Len(s) THEN <<>>
  ELSE IF OccursAt(s, sub, i)
       THEN rep \o ReplaceAllFrom(s, sub, rep, i + Len(sub))
       ELSE <<s[i]>> \o ReplaceAllFrom(s, sub, rep, i + 1)

\* String.prototype.replace with a global pattern of literal characters
ReplaceAll(s, sub, rep) == ReplaceAllFrom(s, sub, rep, 1)

\* String.prototype.replace with a string pattern: the first occurrence only
ReplaceFirst(s, sub, rep) ==
  IF ~Includes(s, sub) THEN s
  ELSE LET i == CHOOSE j \in 1..Len(s) :
                  OccursAt(s, sub, j) /\ \A k \in 1..(j - 1) : ~OccursAt(s, sub, k)
       IN  SubSeq(s, 1, i - 1) \o rep \o SubSeq(s, i + Len(sub), Len(s))

\* s.split(ch)[0]: what precedes the first ch
SplitFirst(s, ch) ==
  IF ch \notin Range(s) THEN s
  ELSE LET i == CHOOSE j \in 1..Len(s) :
                  s[j] = ch /\ \A k \in 1..(j - 1) : s[k] # ch
       IN  SubSeq(s, 1, i - 1)

\* the code unit of a character, for the order Firestore returns documents in
CharCode(c) ==
  CASE c = "\n" -> 10 [] c = " " -> 32 [] c = "#" -> 35 [] c = "(" -> 40
    [] c = ")" -> 41 [] c = "-" -> 45 [] c = "." -> 46 [] c = "/" -> 47
    [] c = "0" -> 48 [] c = "1" -> 49 [] c = "2" -> 50 [] c = "3" -> 51
    [] c = ":" -> 58 [] c = "=" -> 61
    [] c = "a" -> 97 [] c = "b" -> 98 [] c = "c" -> 99 [] c = "e" -> 101
    [] c = "f" -> 102 [] c = "i" -> 105 [] c = "k" -> 107 [] c = "n" -> 110
    [] c = "o" -> 111 [] c = "r" -> 114 [] c = "s" -> 115 [] c = "t" -> 116
    [] c = "v" -> 118 [] c = "x" -> 120
    [] OTHER -> 127

RECURSIVE StrLess(_, _)
StrLess(s, t) ==
  IF t = <<>> THEN FALSE
  ELSE IF s = <<>> THEN TRUE
  ELSE IF s[1] # t[1] THEN CharCode(s[1]) < CharCode(t[1])
  ELSE StrLess(Tail(s), Tail(t))

(***************************************************************************)
(* Objects with string keys: the entries in insertion order                *)
(***************************************************************************)
Keys(m) == [i \in DOMAIN m |-> m[i].k]

Has(m, key) == \E i \in DOMAIN m : m[i].k = key

Get(m, key) == m[CHOOSE i \in DOMAIN m : m[i].k = key].v

Put(m, key, val) ==
  IF Has(m, key)
  THEN [i \in DOMAIN m |-> IF m[i].k = key THEN [k |-> key, v |-> val] ELSE m[i]]
  ELSE Append(m, [k |-> key, v |-> val])

Del(m, key) == SelectSeq(m, LAMBDA e : e.k # key)

RECURSIVE Flatten(_)
Flatten(ss) == IF ss = <<>> THEN <<>> ELSE Head(ss) \o Flatten(Tail(ss))

(***************************************************************************)
(* utils/utils.js                                                          *)
(***************************************************************************)
MsPerDay == 86400000

\* Math.ceil(ms / (1000 * 60 * 60 * 24)); -0 compares as 0
CeilDays(ms) == -((-ms) \div MsPerDay)

SCHEDULED == "SCHEDULED"
CODE_FREEZE == "CODE_FREEZE"
RELEASE_DAY == "RELEASE_DAY"
RELEASED == "RELEASED"
DELAYED == "DELAYED"
ERROR == "ERROR"
Indeterminate == "Unable to calculate release state"

\* a classifier that does not look at isComplete
calculateReleaseStateNeverReleased(codeFreeze, release, isComplete, nowMs) ==
  LET diffDaysCodeFreeze == CeilDays(codeFreeze - nowMs)
      diffDaysRelease == CeilDays(release - nowMs)
  IN  IF diffDaysCodeFreeze > 0 THEN SCHEDULED
      ELSE IF diffDaysCodeFreeze <= 0 /\ diffDaysRelease > 0 THEN CODE_FREEZE
      ELSE IF diffDaysCodeFreeze < 0 /\ diffDaysRelease = 0 THEN RELEASE_DAY
      ELSE IF diffDaysRelease < 0 THEN DELAYED
      ELSE Indeterminate

\* a classifier for which the day of the release is RELEASE_DAY whenever
\* the code freeze is not in the future
calculateReleaseStateSameDay(codeFreeze, release, isComplete, nowMs) ==
  LET diffDaysCodeFreeze == CeilDays(codeFreeze - nowMs)
      diffDaysRelease == CeilDays(release - nowMs)
  IN  IF diffDaysCodeFreeze > 0 THEN SCHEDULED
      ELSE IF diffDaysCodeFreeze <= 0 /\ diffDaysRelease > 0 THEN CODE_FREEZE
      ELSE IF diffDaysCodeFreeze <= 0 /\ diffDaysRelease = 0 THEN RELEASE_DAY
      ELSE IF diffDaysRelease < 0
           THEN (IF isComplete THEN RELEASED ELSE DELAYED)
      ELSE Indeterminate

\* the value returned, or Indeterminate where the code throws
calculateReleaseState(codeFreeze, release, isComplete, nowMs) ==
  LET diffDaysCodeFreeze == CeilDays(codeFreeze - nowMs)
      diffDaysRelease == CeilDays(release - nowMs)
  IN  IF diffDaysCodeFreeze > 0 THEN SCHEDULED
      ELSE IF diffDaysCodeFreeze <= 0 /\ diffDaysRelease > 0 THEN CODE_FREEZE
      ELSE IF diffDaysCodeFreeze < 0 /\ diffDaysRelease = 0 THEN RELEASE_DAY
      ELSE IF diffDaysRelease < 0
           THEN (IF isComplete THEN RELEASED ELSE DELAYED)
      ELSE Indeterminate

Colon == <<":">>
ColonKtx == <<":", "k", "t", "x">>
SlashKtx == <<"/", "k", "t", "x">>

\* lib.replace(/^:/, "").replace(/:ktx/g, "/ktx")
processLibraryName(lib) ==
  ReplaceAll(IF OccursAt(lib, Colon, 1) THEN Tail(lib) ELSE lib, ColonKtx, SlashKtx)

processLibraryNames(libs) == [i \in DOMAIN libs |-> processLibraryName(libs[i])]

filterOutKtx(libs) == SelectSeq(libs, LAMBDA l : ~Includes(l, SlashKtx))

mergeOneKtx(libraryData, key) ==
  IF ~Includes(key, SlashKtx) THEN libraryData
  ELSE LET rootKey == SplitFirst(key, "/")
           merged == IF Has(libraryData, rootKey)
                     THEN Put(libraryData, rootKey,
                              Get(libraryData, rootKey) \o Get(libraryData, key))
                     ELSE Put(libraryData, rootKey, Get(libraryData, key))
       IN  Del(merged, key)

RECURSIVE mergeKtxOver(_, _)
mergeKtxOver(libraryData, keys) ==
  IF keys = <<>> THEN libraryData
  ELSE mergeKtxOver(mergeOneKtx(libraryData, Head(keys)), Tail(keys))

\* for (const key in libraryData): the keys present when the loop starts, in
\* order; a root key added on the way holds no "/ktx" and is left as it is
mergeKtxIntoRoot(libraryData) == mergeKtxOver(libraryData, Keys(libraryData))

IsDigit(c) == c \in {"0", "1", "2", "3", "4", "5", "6", "7", "8", "9"}
IsSpace(c) == c \in {" ", "\n"}
IsLetter(c) == CharCode(c) >= 97 /\ CharCode(c) <= 122

\* the lookahead (?=\s\(#[0-9]+\)\n) at the position after index j
TitleLookahead(msg, j) ==
  /\ j + 3 <= Len(msg)
  /\ IsSpace(msg[j + 1])
  /\ msg[j + 2] = "("
  /\ msg[j + 3] = "#"
  /\ \E e \in (j + 4)..Len(msg) :
       /\ \A d \in (j + 4)..e : IsDigit(msg[d])
       /\ e + 2 <= Len(msg)
       /\ msg[e + 1] = ")"
       /\ msg[e + 2] = "\n"

TitleMatch(msg, i, j) ==
  /\ i <= j
  /\ \A d \in i..j : msg[d] # "\n"
  /\ TitleLookahead(msg, j)

\* REGEX.EXTRACT_COMMIT_TITLE_FROM_MESSAGE.exec(message): the leftmost start,
\* then the longest (.+); ok is FALSE where the code throws
parseCommitTitleFromMessage(message) ==
  LET starts == {i \in 1..Len(message) : \E j \in i..Len(message) : TitleMatch(message, i, j)}
  IN  IF starts = {} THEN [ok |-> FALSE, v |-> <<>>]
      ELSE LET i == CHOOSE a \in starts : \A b \in starts : a <= b
               j == CHOOSE a \in i..Len(message) :
                      /\ TitleMatch(message, i, a)
                      /\ \A b \in i..Len(message) : TitleMatch(message, i, b) => b <= a
           IN  [ok |-> TRUE, v |-> SubSeq(message, i, j)]

\* the commit ids of every change of the map
getCommitIdsFromChanges(libraryChanges) ==
  UNION {{libraryChanges[i].v[j].commitId : j \in DOMAIN libraryChanges[i].v} :
           i \in DOMAIN libraryChanges}

RECURSIVE getUniqueValues(_)
getUniqueValues(values) ==
  IF values = <<>> THEN <<>>
  ELSE LET rest == getUniqueValues(SubSeq(values, 1, Len(values) - 1))
           value == values[Len(values)]
       IN  IF value \in Range(rest) THEN rest ELSE Append(rest, value)

VersionWord == <<"v", "e", "r", "s", "i", "o", "n">>

\* the case-insensitive literal "version" at index p (the inputs are lower case)
VersionAt(s, p) == OccursAt(s, VersionWord, p)

RECURSIVE SkipSpace(_, _)
SkipSpace(s, p) == IF p <= Len(s) /\ IsSpace(s[p]) THEN SkipSpace(s, p + 1) ELSE p

RECURSIVE SkipDigitsDots(_, _)
SkipDigitsDots(s, p) ==
  IF p <= Len(s) /\ (IsDigit(s[p]) \/ s[p] = ".") THEN SkipDigitsDots(s, p + 1) ELSE p

RECURSIVE SkipDigits(_, _)
SkipDigits(s, p) == IF p <= Len(s) /\ IsDigit(s[p]) THEN SkipDigits(s, p + 1) ELSE p

RECURSIVE SkipNonSpace(_, _)
SkipNonSpace(s, p) == IF p <= Len(s) /\ ~IsSpace(s[p]) THEN SkipNonSpace(s, p + 1) ELSE p

\* (?:#[^\n]*\n\s*)* from p: the position after the comment lines, each
\* starting where the white space after the one before ends
RECURSIVE SkipComments(_, _)
SkipComments(s, p) ==
  IF p <= Len(s) /\ s[p] = "#" /\ \E e \in p..Len(s) : s[e] = "\n"
  THEN LET e == CHOOSE a \in p..Len(s) : s[a] = "\n" /\ \A b \in p..(a - 1) : s[b] # "\n"
       IN  SkipComments(s, SkipSpace(s, e + 1))
  ELSE p

\* the end of (?:-\S*[a-zA-Z][\d]+)? from p, or p when it does not match:
\* \S* gives back characters until a letter followed by digits is found
VersionSuffixEnd(s, p) ==
  IF ~(p <= Len(s) /\ s[p] = "-") THEN p
  ELSE LET stop == SkipNonSpace(s, p + 1)
           letters == {l \in (p + 1)..(stop - 1) :
                         IsLetter(s[l]) /\ l + 1 <= Len(s) /\ IsDigit(s[l + 1])}
       IN  IF letters = {} THEN p
           ELSE SkipDigits(s, (CHOOSE l \in letters : \A m \in letters : m <= l) + 1)

\* the pattern tried at line start i: 0 where it fails, else <<from, to>> of group 1
VersionMatchAt(s, i) ==
  LET p1 == SkipSpace(s, SkipComments(s, i))
      p2 == SkipSpace(s, p1 + Len(VersionWord))
      p3 == SkipSpace(s, p2 + 1)
      p4 == SkipDigitsDots(s, p3)
  IN  IF VersionAt(s, p1) /\ p2 <= Len(s) /\ s[p2] = "=" /\ p4 > p3
      THEN <<p3, VersionSuffixEnd(s, p4) - 1>>
      ELSE <<0, 0>>

\* REGEX.EXTRACT_VERSION_FROM_GRADLEPROPERTIES.exec(content)[1]; ok is FALSE
\* where the code throws
parseGradlePropertiesForVersion(content) ==
  LET lineStarts == {i \in 1..(Len(content) + 1) : i = 1 \/ content[i - 1] = "\n"}
      hits == {i \in lineStarts : VersionMatchAt(content, i)[1] # 0}
  IN  IF hits = {} THEN [ok |-> FALSE, v |-> <<>>]
      ELSE LET i == CHOOSE a \in hits : \A b \in hits : a <= b
               m == VersionMatchAt(content, i)
           IN  [ok |-> TRUE, v |-> SubSeq(content, m[1], m[2])]

\* error.stack.trim()
RECURSIVE TrimStart(_)
TrimStart(s) == IF s # <<>> /\ IsSpace(Head(s)) THEN TrimStart(Tail(s)) ELSE s

RECURSIVE TrimEnd(_)
TrimEnd(s) ==
  IF s # <<>> /\ IsSpace(s[Len(s)]) THEN TrimEnd(SubSeq(s, 1, Len(s) - 1)) ELSE s

getStackTrace(err) == TrimEnd(TrimStart(err.stack))

\* content.split("\n")
RECURSIVE SplitLines(_)
SplitLines(s) ==
  IF "\n" \notin Range(s) THEN <<s>>
  ELSE LET first == SplitFirst(s, "\n")
       IN  <<first>> \o SplitLines(SubSeq(s, Len(first) + 2, Len(s)))

\* index.js, the functions before they were divided into modules: the lines
\* are split and trimmed, a comment line is passed over, and of the first
\* line that starts with "version" and holds an "=" what follows the first
\* "=" is returned, trimmed; ok is FALSE where the code throws
parseGradlePropertiesForVersionBySplit(content) ==
  LET lines == SplitLines(content)
      trimmed(i) == TrimEnd(TrimStart(lines[i]))
      hits == {i \in 1..Len(lines) :
                 /\ ~OccursAt(trimmed(i), <<"#">>, 1)
                 /\ VersionAt(trimmed(i), 1)
                 /\ "=" \in Range(trimmed(i))}
  IN  IF hits = {} THEN [ok |-> FALSE, v |-> <<>>]
      ELSE LET i == CHOOSE a \in hits : \A b \in hits : a <= b
               line == trimmed(i)
               key == SplitFirst(line, "=")
           IN  [ok |-> TRUE,
                v |-> TrimEnd(TrimStart(SubSeq(line, Len(key) + 2, Len(line))))]
\* new Date(dateString) for the date strings requests carry: its time, or
\* valid FALSE for an Invalid Date
Date(time) == [valid |-> TRUE, time |-> time]

DateParse(dateString) ==
  CASE dateString = "1970-01-01" -> Date(0)
    [] dateString = "1970-01-01T12:00Z" -> Date(MsPerDay \div 2)
    [] dateString = "1970-01-02" -> Date(MsPerDay)
    [] dateString = "1970-01-03" -> Date(2 * MsPerDay)
    [] OTHER -> [valid |-> FALSE, time |-> 0]

\* Timestamp.fromDate(new Date(dateString)); ok is FALSE where the code throws
convertDateToTimestamp(dateString) ==
  [ok |-> DateParse(dateString).valid, v |-> DateParse(dateString).time]

(***************************************************************************)
(* The source host (GitHub): what a release branch holds                   *)
(***************************************************************************)
Branches == {"b1", "b2"}

LibA == <<"a">>
LibB == <<"b">>

\* a commit message with a title, and one without the "(#n)" line
GoodMessage == <<"f", "i", "x", " ", "(", "#", "1", ")", "\n", "b">>
BadMessage == <<"f", "i", "x">>

Change1 == [commitId |-> "c1", message |-> GoodMessage, prId |-> "1",
            prLink |-> "pull/1", commitLink |-> "commit/c1"]
Change2 == [commitId |-> "c2", message |-> BadMessage, prId |-> "2",
            prLink |-> "pull/2", commitLink |-> "commit/c2"]

Gradle1 == <<"v", "e", "r", "s", "i", "o", "n", "=", "1">>
Gradle2 == <<"#", "c", "\n", "v", "e", "r", "s", "i", "o", "n", " ", "=", " ", "2", "\n">>

BuildWorkflow(status, conclusion) ==
  [name |-> "Build Release Artifacts", status |-> status, conclusion |-> conclusion,
   html_url |-> "actions/runs/7", id |-> "7"]

OtherWorkflow ==
  [name |-> "CI", status |-> "completed", conclusion |-> "success",
   html_url |-> "actions/runs/8", id |-> "8"]

CheckRun(id, status, conclusion) ==
  [id |-> id, name |-> "unit", head_sha |-> "sha1", status |-> status,
   conclusion |-> conclusion, output |-> [title |-> "out"], html_url |-> "runs/1"]

\* no such branch
NoBranch ==
  [exists |-> FALSE, config |-> <<>>, report |-> <<>>, workflow_runs |-> <<>>,
   check_runs |-> <<>>, gradle |-> <<>>]

\* the branch is cut: release.json lists a library and its ktx module, the
\* report has a change under the ktx module and a second library with no
\* change, which release.json does not list
BranchCut ==
  [exists |-> TRUE,
   config |-> << <<":", "a">>, <<":", "a", ":", "k", "t", "x">> >>,
   report |-> << [k |-> <<"a", "/", "k", "t", "x">>, v |-> <<Change1>>],
                 [k |-> LibB, v |-> <<>>] >>,
   workflow_runs |-> <<OtherWorkflow, BuildWorkflow("in_progress", "none")>>,
   check_runs |-> <<CheckRun("k1", "in_progress", "none"),
                    CheckRun("k2", "completed", "failure")>>,
   gradle |-> << [k |-> LibA, v |-> Gradle1], [k |-> LibB, v |-> Gradle1] >>]

\* the version of the library is bumped, the second library has left the
\* report, one check is gone and the other has completed
BranchBumped ==
  [exists |-> TRUE,
   config |-> << <<":", "a">> >>,
   report |-> << [k |-> LibA, v |-> <<Change1>>] >>,
   workflow_runs |-> <<BuildWorkflow("completed", "success")>>,
   check_runs |-> <<CheckRun("k1", "completed", "success")>>,
   gradle |-> << [k |-> LibA, v |-> Gradle2] >>]

\* a commit with no pull request number in its message joins the report
BranchOddCommit ==
  [exists |-> TRUE,
   config |-> << <<":", "a">> >>,
   report |-> << [k |-> LibA, v |-> <<Change1, Change2>>] >>,
   workflow_runs |-> <<BuildWorkflow("completed", "success")>>,
   check_runs |-> <<CheckRun("k1", "completed", "success")>>,
   gradle |-> << [k |-> LibA, v |-> Gradle2] >>]

\* the branch is cut with a library that release.json lists and the report
\* names with no change yet
BranchGrouped ==
  [exists |-> TRUE,
   config |-> << <<":", "a">> >>,
   report |-> << [k |-> LibA, v |-> <<>>] >>,
   workflow_runs |-> <<BuildWorkflow("in_progress", "none")>>,
   check_runs |-> <<CheckRun("k1", "in_progress", "none")>>,
   gradle |-> << [k |-> LibA, v |-> Gradle1] >>]

\* what the first branch comes to hold when its library has no change at
\* first: a change follows, with the bump of the version
GroupedStates == <<NoBranch, BranchGrouped, BranchBumped>>
\* what the first branch comes to hold when a change is pushed to it after
\* it is cut
PushedStates == <<NoBranch, BranchGrouped, BranchCut>>
\* what the branches come to hold, each in this order: the first goes
\* through every case, the second is cut from the start and stays so
BranchStates(b) ==
  IF b = "b1" THEN <<NoBranch, BranchCut, BranchBumped, BranchOddCommit>>
  ELSE <<BranchCut>>

\* what a failed call of the host or of the code throws
HttpError == [message |-> "HttpError", stack |-> <<"E", "1", "\n", " ", "a", "t", "\n">>]
NotFoundError == [message |-> "Not Found", stack |-> <<"E", "2", "\n", " ", "a", "t">>]
NoWorkflowError ==
  [message |-> "No Build Release Artifacts workflow found", stack |-> <<"E", "3">>]
NoTitleError ==
  [message |-> "Unable to extract commit title from message", stack |-> <<"E", "4">>]
NoLibraryError ==
  [message |-> "Library in release report does not exist in Firestore",
   stack |-> <<"E", "5">>]
NoVersionError ==
  [message |-> "Unable to extract version from gradle.properties", stack |-> <<"E", "6">>]
NoDocumentError == [message |-> "NOT_FOUND", stack |-> <<"E", "7">>]
UnavailableError == [message |-> "UNAVAILABLE", stack |-> <<"E", "6">>]
NoReleaseError == [message |-> "No release found with ID", stack |-> <<"E", "8">>]
NoStateError == [message |-> Indeterminate, stack |-> <<"E", "9">>]
NoError == [message |-> "", stack |-> <<>>]

(***************************************************************************)
(* Firestore: a collection is a function from document ids to documents    *)
(***************************************************************************)
ReleaseIds == {"r1", "r2"}

\* the order of the release ids in a QuerySnapshot
ReleaseIdRank(id) == IF id = "r1" THEN 1 ELSE 2

\* collection.doc(): the ids not handed out yet, in the order they will be;
\* an id is handed out once
RECURSIVE NewIds(_)
NewIds(used) ==
  IF ReleaseIds \ used = {} THEN <<>>
  ELSE LET id == CHOOSE a \in ReleaseIds \ used :
                   \A b \in ReleaseIds \ used : ReleaseIdRank(a) <= ReleaseIdRank(b)
       IN  <<id>> \o NewIds(used \cup {id})

\* collection.where(field, "==", value).get(): the ids of the matches
Where(coll, field, value) ==
  {id \in DOMAIN coll : field \in DOMAIN coll[id] /\ coll[id][field] = value}

\* DocumentReference.set(data): the document is replaced
SetDoc(coll, id, data) ==
  [d \in DOMAIN coll \cup {id} |-> IF d = id THEN data ELSE coll[d]]

\* an update that leaves out the document id: every document of the
\* collection takes the fields of data
UpdateAllDocs(coll, id, data) ==
  [d \in DOMAIN coll |->
     [f \in DOMAIN coll[d] \cup DOMAIN data |->
        IF f \in DOMAIN data THEN data[f] ELSE coll[d][f]]]

\* DocumentReference.set(data) in the place of update(data)
UpdateBySet(coll, id, data) ==
  [d \in DOMAIN coll |-> IF d = id THEN data ELSE coll[d]]

\* DocumentReference.update(data) on a document that exists: the fields of
\* data replace those of the document, the others stay
UpdateDoc(coll, id, data) ==
  [d \in DOMAIN coll |->
     IF d = id
     THEN [f \in DOMAIN coll[d] \cup DOMAIN data |->
             IF f \in DOMAIN data THEN data[f] ELSE coll[d][f]]
     ELSE coll[d]]

DeleteDoc(coll, id) == [d \in DOMAIN coll \ {id} |-> coll[d]]

BatchSet(id, data) == [op |-> "set", id |-> id, data |-> data]
BatchDelete(id) == [op |-> "delete", id |-> id, data |-> <<>>]

\* WriteBatch.commit(): the writes of the batch, in the order they were added
RECURSIVE Commit(_, _)
Commit(coll, batch) ==
  IF batch = <<>> THEN coll
  ELSE Commit(IF Head(batch).op = "set"
              THEN SetDoc(coll, Head(batch).id, Head(batch).data)
              ELSE DeleteDoc(coll, Head(batch).id),
              Tail(batch))

\* the elements of a set in some order, where the order has no effect
RECURSIVE SeqOf(_)
SeqOf(S) ==
  IF S = {} THEN <<>>
  ELSE LET x == CHOOSE y \in S : TRUE IN <<x>> \o SeqOf(S \ {x})

\* a set of document ids as a sequence, in the order of QuerySnapshot.docs
RECURSIVE DocsInOrder(_)
DocsInOrder(ids) ==
  IF ids = {} THEN <<>>
  ELSE LET first == CHOOSE a \in ids : \A b \in ids \ {a} : StrLess(a, b)
       IN  <<first>> \o DocsInOrder(ids \ {first})

(***************************************************************************)
(* database/database.js                                                    *)
(***************************************************************************)
releaseExists(rels, releaseId) == releaseId \in DOMAIN rels

\* the id, "" for null; ok is FALSE where the code throws
getReleaseID(rels, releaseName) ==
  LET found == Where(rels, "releaseName", releaseName)
  IN  IF found = {} THEN [ok |-> TRUE, v |-> ""]
      ELSE IF Cardinality(found) > 1 THEN [ok |-> FALSE, v |-> ""]
      ELSE [ok |-> TRUE, v |-> CHOOSE id \in found : TRUE]

\* the id of the first release that tracks the branch, "" for null
getReleaseIdFromBranch(rels, releaseBranchName) ==
  LET found == Where(rels, "releaseBranchName", releaseBranchName)
  IN  IF found = {} THEN ""
      ELSE CHOOSE a \in found : \A b \in found : ReleaseIdRank(a) <= ReleaseIdRank(b)
releaseToFirestoreObject(release) ==
  [state |-> SCHEDULED,
   releaseName |-> release.releaseName,
   releaseOperator |-> "ACore Team Member",
   codeFreezeDate |-> release.codeFreezeDate,
   releaseDate |-> release.releaseDate,
   releaseBranchName |-> release.releaseBranchName,
   releaseBranchLink |-> <<"tree", release.releaseBranchName>>,
   isReleased |-> release.isReleased,
   buildArtifactStatus |-> "",
   buildArtifactConclusion |-> "",
   buildArtifactLink |-> "",
   buildArtifactJobId |-> ""]

encodeLibraryDocId(libraryName, updatedVersion) ==
  ReplaceAll(libraryName, <<"/">>, <<":">>) \o <<"-">> \o updatedVersion

batchSetLibrariesForRelease(libs, releaseId) ==
  [i \in DOMAIN libs |->
     BatchSet(encodeLibraryDocId(libs[i].k, libs[i].v.updatedVersion),
              [libraryName |-> libs[i].k,
               updatedVersion |-> libs[i].v.updatedVersion,
               optedIn |-> libs[i].v.optedIn,
               libraryGroupRelease |-> libs[i].v.libraryGroupRelease,
               releaseID |-> releaseId])]

\* previous is the snapshot of the libraries of the release
batchDeleteOptedOutLibraries(previous, libs) ==
  LET gone == {id \in DOMAIN previous : previous[id].libraryName \notin Range(Keys(libs))}
      docs == DocsInOrder(gone)
  IN  [i \in DOMAIN docs |-> BatchDelete(docs[i])]

\* the id of the first library document of that name; ok is FALSE where the
\* code throws
getLibraryId(libs, libraryName) ==
  LET found == Where(libs, "libraryName", libraryName)
  IN  IF found = {} THEN [ok |-> FALSE, v |-> <<>>]
      ELSE [ok |-> TRUE, v |-> DocsInOrder(found)[1]]

\* the writes of one library's changes; ok is FALSE where a title cannot be
\* parsed
batchSetReleaseChanges(chgs, libraryId, releaseId) ==
  IF \E i \in DOMAIN chgs : ~parseCommitTitleFromMessage(chgs[i].message).ok
  THEN [ok |-> FALSE, v |-> <<>>]
  ELSE [ok |-> TRUE,
        v |-> [i \in DOMAIN chgs |->
                 BatchSet(chgs[i].commitId,
                          [commitTitle |-> parseCommitTitleFromMessage(chgs[i].message).v,
                           message |-> chgs[i].message,
                           author |-> "GitHub user",
                           pullRequestID |-> chgs[i].prId,
                           pullRequestLink |-> chgs[i].prLink,
                           commitID |-> chgs[i].commitId,
                           commitLink |-> chgs[i].commitLink,
                           libraryID |-> libraryId,
                           releaseID |-> releaseId])]]

\* previous is the snapshot of the changes of the release
batchDeleteOldChanges(previous, newChanges) ==
  LET commitIds == getCommitIdsFromChanges(newChanges)
      gone == {id \in DOMAIN previous : previous[id].commitID \notin commitIds}
      docs == SeqOf(gone)
  IN  [i \in DOMAIN docs |-> BatchDelete(docs[i])]

\* previous is the set of the ids of the checks of the release
batchDeleteReleaseChecks(previous) ==
  LET docs == SeqOf(previous) IN [i \in DOMAIN docs |-> BatchDelete(docs[i])]

batchSetReleaseChecks(checkRunList, releaseId) ==
  [i \in DOMAIN checkRunList |->
     BatchSet(checkRunList[i].id,
              [name |-> checkRunList[i].name,
               headSHA |-> checkRunList[i].headSHA,
               status |-> checkRunList[i].status,
               conclusion |-> checkRunList[i].conclusion,
               outputTitle |-> checkRunList[i].outputTitle,
               httpsUrl |-> checkRunList[i].httpsUrl,
               releaseID |-> releaseId])]

\* the document docRef.set leaves: the three fields and no other
updateCheckRunStatus(chks, checkRunId, headSHA, status, conclusion) ==
  SetDoc(chks, checkRunId,
         [headSHA |-> headSHA, status |-> status, conclusion |-> conclusion])

\* the document collection("releaseError").add stores
setReleaseError(releaseId, errorMsg, stackTrace, contextMsg, timestamp) ==
  [releaseID |-> releaseId, stackTrace |-> stackTrace, contextMsg |-> contextMsg,
   timestamp |-> timestamp]

(***************************************************************************)
(* github/github.js: what each call returns for the branch data b it reads *)
(***************************************************************************)
\* the first workflow run named "Build Release Artifacts"; ok is FALSE where
\* the code throws
getBuildArtifactsWorkflow(b) ==
  LET named == {i \in DOMAIN b.workflow_runs :
                  b.workflow_runs[i].name = "Build Release Artifacts"}
  IN  IF named = {} THEN [ok |-> FALSE, v |-> OtherWorkflow]
      ELSE [ok |-> TRUE,
            v |-> b.workflow_runs[CHOOSE i \in named : \A j \in named : i <= j]]

\* the path of the gradle.properties file of a library
gradleDir(library) ==
  IF EndsWith(library, SlashKtx) THEN ReplaceFirst(library, SlashKtx, <<>>) ELSE library

\* err is the error thrown for the first library whose file is missing or
\* holds no version, NoError when there is none
getLibraryVersions(b, libraryNames) ==
  LET missing == {i \in DOMAIN libraryNames : ~Has(b.gradle, gradleDir(libraryNames[i]))}
      unparsed == {i \in DOMAIN libraryNames \ missing :
                     ~parseGradlePropertiesForVersion(
                         Get(b.gradle, gradleDir(libraryNames[i]))).ok}
  IN  IF missing # {} THEN [err |-> NotFoundError, v |-> <<>>]
      ELSE IF unparsed # {} THEN [err |-> NoVersionError, v |-> <<>>]
      ELSE [err |-> NoError,
            v |-> [i \in DOMAIN libraryNames |->
                     [k |-> libraryNames[i],
                      v |-> parseGradlePropertiesForVersion(
                               Get(b.gradle, gradleDir(libraryNames[i]))).v]]]

\* flags for which only a library of the manifest is a group release
libraryFlagsReleasingOnly(libraryNames, libraryChanges, library, version) ==
  LET libraryIsReleasing == library \in Range(libraryNames)
      libraryIsInChanges == Has(libraryChanges, library)
      libraryHasAtLeastOneChange ==
        libraryIsInChanges /\ Len(Get(libraryChanges, library)) > 0
  IN  [updatedVersion |-> version,
       optedIn |-> libraryIsReleasing /\ ~libraryIsInChanges,
       optedOut |-> ~libraryIsReleasing /\ libraryIsInChanges,
       libraryGroupRelease |->
         libraryIsReleasing /\ libraryIsInChanges /\ ~libraryHasAtLeastOneChange]

\* the entry of getLibraryMetadata for a library and its version
libraryFlags(libraryNames, libraryChanges, library, version) ==
  LET libraryIsReleasing == library \in Range(libraryNames)
      libraryIsInChanges == Has(libraryChanges, library)
      libraryHasAtLeastOneChange ==
        libraryIsInChanges /\ Len(Get(libraryChanges, library)) > 0
  IN  [updatedVersion |-> version,
       optedIn |-> libraryIsReleasing /\ ~libraryIsInChanges,
       optedOut |-> ~libraryIsReleasing /\ libraryIsInChanges,
       libraryGroupRelease |-> libraryIsInChanges /\ ~libraryHasAtLeastOneChange]

\* metadata built over the names of the manifest alone
getLibraryMetadataOfManifest(b, libraryNames, libraryChanges) ==
  LET allLibraryNames == getUniqueValues(libraryNames)
      libraryVersions == getLibraryVersions(b, allLibraryNames)
  IN  [err |-> libraryVersions.err,
       v |-> [i \in DOMAIN libraryVersions.v |->
                [k |-> libraryVersions.v[i].k,
                 v |-> libraryFlags(libraryNames, libraryChanges,
                                    libraryVersions.v[i].k, libraryVersions.v[i].v)]]]
getLibraryMetadata(b, libraryNames, libraryChanges) ==
  LET allLibraryNames == getUniqueValues(libraryNames \o Keys(libraryChanges))
      libraryVersions == getLibraryVersions(b, allLibraryNames)
  IN  [err |-> libraryVersions.err,
       v |-> [i \in DOMAIN libraryVersions.v |->
                [k |-> libraryVersions.v[i].k,
                 v |-> libraryFlags(libraryNames, libraryChanges,
                                    libraryVersions.v[i].k, libraryVersions.v[i].v)]]]

\* checkRuns.map(...) of syncReleaseState
checkRunList(checkRuns) ==
  [i \in DOMAIN checkRuns |->
     [id |-> checkRuns[i].id,
      name |-> checkRuns[i].name,
      headSHA |-> checkRuns[i].head_sha,
      status |-> checkRuns[i].status,
      conclusion |-> checkRuns[i].conclusion,
      outputTitle |-> checkRuns[i].output.title,
      httpsUrl |-> checkRuns[i].html_url]]

(***************************************************************************)
(* validation/validation.js                                                *)
(***************************************************************************)
\* REGEX.RELEASE_NAME: /^M\d+\S*$/
isValidReleaseName(name) ==
  /\ Len(name) >= 2
  /\ name[1] = "M"
  /\ IsDigit(name[2])
  /\ \A i \in 3..Len(name) : ~IsSpace(name[i])

isValidDate(dateString) == DateParse(dateString).valid

\* a field a request leaves out is "" here (<<>> for the name), which the
\* code's "!release.field" takes like a missing one
validateReleaseName(release) ==
  IF release.releaseName = <<>> THEN <<"MISSING_RELEASE_FIELD">>
  ELSE IF TrimEnd(TrimStart(release.releaseName)) = <<>> THEN <<"INVALID_RELEASE_FIELD">>
  ELSE IF ~isValidReleaseName(release.releaseName) THEN <<"INVALID_RELEASE_NAME">>
  ELSE <<>>

validateReleaseOperator(release) ==
  IF release.releaseOperator = "" THEN <<"MISSING_RELEASE_FIELD">> ELSE <<>>

validateReleaseDates(release) ==
  IF release.codeFreezeDate = "" \/ release.releaseDate = ""
  THEN <<"MISSING_RELEASE_FIELD">>
  ELSE IF ~isValidDate(release.codeFreezeDate) \/ ~isValidDate(release.releaseDate)
  THEN <<"INVALID_DATE">>
  ELSE IF DateParse(release.releaseDate).time <= DateParse(release.codeFreezeDate).time
  THEN <<"CODEFREEZE_AFTER_RELEASE">>
  ELSE <<>>

validateReleaseBranch(release) ==
  IF release.releaseBranchName = "" THEN <<"MISSING_RELEASE_FIELD">> ELSE <<>>

\* the list of errors of a release of a request
validateRelease(release) ==
  validateReleaseName(release) \o validateReleaseOperator(release)
    \o validateReleaseDates(release) \o validateReleaseBranch(release)

validateUniqueReleaseNames(rels) ==
  IF Cardinality({rels[i].releaseName : i \in DOMAIN rels}) # Len(rels)
  THEN <<"DUPLICATE_RELEASE_NAMES">>
  ELSE <<>>

validateNewReleases(newReleases) ==
  LET errors == Flatten([i \in DOMAIN newReleases |-> validateRelease(newReleases[i])])
  IN  IF errors = <<>> THEN validateUniqueReleaseNames(newReleases) ELSE errors

\* releases.map(...) of convertReleaseDatesToTimestamps, for a list whose
\* dates have passed validation
convertReleaseDatesToTimestamps(rels) ==
  [i \in DOMAIN rels |->
     [rels[i] EXCEPT !.codeFreezeDate = convertDateToTimestamp(rels[i].codeFreezeDate).v,
                     !.releaseDate = convertDateToTimestamp(rels[i].releaseDate).v]]

(***************************************************************************)
(* What requests carry                                                     *)
(***************************************************************************)
Release1 ==
  [releaseName |-> <<"M", "1">>, releaseOperator |-> "op",
   codeFreezeDate |-> "1970-01-01", releaseDate |-> "1970-01-01T12:00Z",
   releaseBranchName |-> "b1", isReleased |-> TRUE]

Release2 ==
  [releaseName |-> <<"M", "2">>, releaseOperator |-> "op",
   codeFreezeDate |-> "1970-01-02", releaseDate |-> "1970-01-03",
   releaseBranchName |-> "b2", isReleased |-> FALSE]

\* a name that is no milestone, a release date before the code freeze
ReleaseOdd ==
  [releaseName |-> <<"x">>, releaseOperator |-> "op",
   codeFreezeDate |-> "1970-01-03", releaseDate |-> "1970-01-01",
   releaseBranchName |-> "b1", isReleased |-> FALSE]

\* a name of blanks, no operator, a code freeze date that is no date
ReleaseBad ==
  [releaseName |-> <<" ">>, releaseOperator |-> "",
   codeFreezeDate |-> "soon", releaseDate |-> "1970-01-03",
   releaseBranchName |-> "b1", isReleased |-> FALSE]

NewReleaseLists ==
  {<<Release1>>, <<Release2>>, <<Release1, Release2>>, <<Release1, Release1>>,
   <<ReleaseOdd>>, <<ReleaseBad>>}

\* the release objects of modifyRelease requests
ReleasePatches == {Release1, Release2, ReleaseOdd, ReleaseBad}

\* the instants at which the clock is read
NowSet == {0 - MsPerDay, MsPerDay \div 2, MsPerDay}

Tasks == {1, 2}

(***************************************************************************)
(* State                                                                   *)
(***************************************************************************)
\* a run is followed until the releaseError collection would grow past this
MaxErrors == 2

BranchContext == "Could not retrieve the release branch from GitHub."
SyncContext == "Failed to sync release data from release branch on GitHub"

\* the frame of an invocation of syncReleaseState: where it stands (pc), its
\* locals, and a record of what it has done so far: the store when it was
\* called (pre), the host calls it has made (calls) and the collections it
\* has written, in order (trace), and whether it follows a full sync of the
\* same release with nothing but the clock changed in between (again)
IdleFrame ==
  [pc |-> "idle", releaseId |-> "", releaseName |-> <<>>, releaseData |-> <<>>,
   releaseState |-> "", pending |-> {}, releaseConfig |-> <<>>,
   releaseReport |-> <<>>, buildArtifactWorkflow |-> OtherWorkflow,
   libraryNames |-> <<>>, libraryChanges |-> <<>>, libraryMetadata |-> <<>>,
   checkRunList |-> <<>>, libPc |-> "", chkPc |-> "", batch |-> <<>>,
   checksBatch |-> <<>>, keys |-> <<>>, err |-> NoError, contextMsg |-> "",
   caught |-> NoError, pre |-> <<>>, calls |-> {}, trace |-> <<>>,
   again |-> FALSE]

NoRequest == [kind |-> "none", phase |-> "done", status |-> 0, body |-> <<>>]

NoDelete ==
  [phase |-> "done", releaseId |-> "", libraries |-> {}, changes |-> {}, checks |-> {}]

\* no invocation was stopped
NoStop == [releaseId |-> "", pre |-> <<>>, now |-> 0, host |-> <<>>]

\* no function is called on its own
NoCall == [fn |-> "", pc |-> "returned"]

\* the deployment before its first request: the store is empty
Deployed ==
  /\ now \in NowSet
  /\ host = [b \in Branches |-> BranchStates(b)[1]]
  /\ releases = <<>>
  /\ libraries = <<>>
  /\ changes = <<>>
  /\ checks = <<>>
  /\ releaseError = EmptyBag
  /\ usedIds = {}
  /\ req = NoRequest
  /\ del = NoDelete
  /\ sync = [t \in Tasks |-> IdleFrame]
  /\ last = ""
  /\ held = <<>>
  /\ stopped = NoStop

Init == Deployed /\ call = NoCall

\* no request is being handled
Idle == req.phase = "done" /\ del.phase = "done"

\* the invocations of syncReleaseState that have neither returned nor raised
Running == {t \in Tasks : sync[t].pc \notin {"idle", "returned", "raised"}}

(***************************************************************************)
(* The environment: the clock and the repository                           *)
(***************************************************************************)
\* time passes and the repository changes between requests: a request is
\* short next to either
Tick ==
  /\ Idle
  /\ \E t \in NowSet : t > now /\ now' = t
  /\ UNCHANGED <<call, held, stopped, host, store, usedIds, req, sync, del, last>>

\* the clock also reaches the second day after the release date of the
\* first release
TickLate ==
  /\ Idle
  /\ \E t \in NowSet \cup {2 * MsPerDay} : t > now /\ now' = t
  /\ UNCHANGED <<call, held, stopped, host, store, usedIds, req, sync, del, last>>
HostChange ==
  /\ Idle
  /\ \E b \in Branches :
     \E i \in 1..(Len(BranchStates(b)) - 1) :
       /\ host[b] = BranchStates(b)[i]
       /\ host' = [host EXCEPT ![b] = BranchStates(b)[i + 1]]
  /\ last' = ""
  /\ UNCHANGED <<call, held, stopped, now, store, usedIds, req, sync, del>>

\* a push to the first branch, which can come while a request is handled
Push ==
  /\ \E i \in 1..(Len(PushedStates) - 1) :
       /\ host["b1"] = PushedStates[i]
       /\ host' = [host EXCEPT !["b1"] = PushedStates[i + 1]]
  /\ last' = ""
  /\ UNCHANGED <<call, held, stopped, now, store, usedIds, req, sync, del>>
\* the repository of the first branch changes between requests, from a
\* library with no change to the library with a change and a new version
HostRegroup ==
  /\ Idle
  /\ \E i \in 1..(Len(GroupedStates) - 1) :
       /\ host["b1"] = GroupedStates[i]
       /\ host' = [host EXCEPT !["b1"] = GroupedStates[i + 1]]
  /\ last' = ""
  /\ UNCHANGED <<call, held, stopped, now, store, usedIds, req, sync, del>>

(***************************************************************************)
(* handlers/handlers.js: syncReleaseState, one action for each await       *)
(***************************************************************************)
\* a frame that syncReleaseState is called in
CallFrame(releaseId) == [IdleFrame EXCEPT !.pc = "load", !.releaseId = releaseId]

\* a catch block that throws err again without a call of handleReleaseError
CaughtUnhandled(f, err, contextMsg) ==
  [IdleFrame EXCEPT !.pc = "raised", !.err = err, !.caught = err,
                    !.contextMsg = contextMsg,
                    !.releaseId = f.releaseId, !.releaseName = f.releaseName,
                    !.releaseData = f.releaseData, !.releaseState = f.releaseState,
                    !.pre = f.pre, !.calls = f.calls, !.trace = f.trace]

\* the catch blocks: handleReleaseError is entered with err and contextMsg;
\* what the try block had declared is out of scope
Caught(f, err, contextMsg) ==
  [IdleFrame EXCEPT !.pc = "handle", !.err = err, !.caught = err,
                    !.contextMsg = contextMsg,
                    !.releaseId = f.releaseId, !.releaseName = f.releaseName,
                    !.releaseData = f.releaseData, !.releaseState = f.releaseState,
                    !.pre = f.pre, !.calls = f.calls, !.trace = f.trace]

isComplete(releaseData) ==
  IF "isComplete" \in DOMAIN releaseData THEN releaseData.isComplete ELSE FALSE

\* getReleaseData inside the try block: a release that is missing is handed
\* to handleReleaseError
SyncLoadInsideTry(t) ==
  LET f == [sync[t] EXCEPT !.pre = store] IN
  /\ f.pc = "load"
  /\ IF ~releaseExists(releases, f.releaseId)
     THEN sync' = [sync EXCEPT ![t] = Caught(f, NoReleaseError, SyncContext)]
     ELSE LET releaseData == releases[f.releaseId]
              releaseState == calculateReleaseState(releaseData.codeFreezeDate,
                                  releaseData.releaseDate, isComplete(releaseData), now)
          IN  sync' = [sync EXCEPT ![t] =
                IF releaseState = Indeterminate
                THEN [f EXCEPT !.pc = "raised", !.err = NoStateError]
                ELSE [f EXCEPT !.pc = IF releaseState = SCHEDULED THEN "scheduled"
                                      ELSE "branch",
                               !.releaseData = releaseData,
                               !.releaseState = releaseState]]
  /\ UNCHANGED <<call, held, stopped, now, host, store, usedIds, req, del, last>>

\* getReleaseData and calculateReleaseState: neither is inside a try.  The
\* frame keeps the store as this first read found it
SyncLoad(t) ==
  LET f == [sync[t] EXCEPT !.pre = store] IN
  /\ f.pc = "load"
  /\ IF ~releaseExists(releases, f.releaseId)
     THEN sync' = [sync EXCEPT ![t] = [f EXCEPT !.pc = "raised", !.err = NoReleaseError]]
     ELSE LET releaseData == releases[f.releaseId]
              releaseState == calculateReleaseState(releaseData.codeFreezeDate,
                                  releaseData.releaseDate, isComplete(releaseData), now)
          IN  sync' = [sync EXCEPT ![t] =
                IF releaseState = Indeterminate
                THEN [f EXCEPT !.pc = "raised", !.err = NoStateError]
                ELSE [f EXCEPT !.pc = IF releaseState = SCHEDULED THEN "scheduled"
                                      ELSE "branch",
                               !.releaseData = releaseData,
                               !.releaseState = releaseState]]
  /\ UNCHANGED <<call, held, stopped, now, host, store, usedIds, req, del, last>>

\* updateReleaseState(releaseId, SCHEDULED), then return
SyncScheduled(t) ==
  LET f == sync[t] IN
  /\ f.pc = "scheduled"
  /\ IF releaseExists(releases, f.releaseId)
     THEN /\ releases' = UpdateDoc(releases, f.releaseId, [state |-> f.releaseState])
          /\ sync' = [sync EXCEPT ![t] =
                        [f EXCEPT !.pc = "returned", !.trace = Append(@, "state")]]
     ELSE /\ sync' = [sync EXCEPT ![t] = [f EXCEPT !.pc = "raised", !.err = NoDocumentError]]
          /\ UNCHANGED releases
  /\ UNCHANGED <<call, held, stopped, now, host, libraries, changes, checks, releaseError, usedIds, req, del, last>>

\* getReleaseBranch
SyncBranch(t) ==
  LET f == sync[t] IN
  /\ f.pc = "branch"
  /\ sync' = [sync EXCEPT ![t] =
       IF host[f.releaseData.releaseBranchName].exists
       THEN [f EXCEPT !.pc = "fetch",
                      !.calls = @ \cup {"branch", "config", "report", "workflow"},
                      !.pending = {"config", "report", "workflow"}]
       ELSE Caught([f EXCEPT !.calls = @ \cup {"branch"}], NotFoundError, BranchContext)]
  /\ UNCHANGED <<call, held, stopped, now, host, store, usedIds, req, del, last>>

\* one of getReleaseConfig, getReleaseReport and getBuildArtifactsWorkflow
\* resolves or rejects; Promise.all rejects with the first rejection, and
\* resolves when the three have resolved
SyncFetch(t) ==
  LET f == sync[t]
      b == host[f.releaseData.releaseBranchName] IN
  /\ f.pc = "fetch"
  /\ \E which \in f.pending :
       LET got == CASE which = "config" -> [f EXCEPT !.releaseConfig = b.config]
                    [] which = "report" -> [f EXCEPT !.releaseReport = b.report]
                    [] which = "workflow" ->
                         [f EXCEPT !.buildArtifactWorkflow = getBuildArtifactsWorkflow(b).v]
           left == f.pending \ {which}
       IN  sync' = [sync EXCEPT ![t] =
             IF ~b.exists THEN Caught(f, NotFoundError, SyncContext)
             ELSE IF which = "workflow" /\ ~getBuildArtifactsWorkflow(b).ok
             THEN Caught(f, NoWorkflowError, SyncContext)
             ELSE [got EXCEPT !.pending = left,
                              !.pc = IF left = {} THEN "metadata" ELSE "fetch"]]
  /\ UNCHANGED <<call, held, stopped, now, host, store, usedIds, req, del, last>>

\* processLibraryNames, filterOutKtx, mergeKtxIntoRoot and getLibraryMetadata,
\* whose reads of the gradle.properties files are taken together
SyncMetadata(t) ==
  LET f == sync[t]
      b == host[f.releaseData.releaseBranchName]
      libraryNames == filterOutKtx(processLibraryNames(f.releaseConfig))
      libraryChanges == mergeKtxIntoRoot(f.releaseReport)
      libraryMetadata == getLibraryMetadata(b, libraryNames, libraryChanges) IN
  /\ f.pc = "metadata"
  /\ sync' = [sync EXCEPT ![t] =
       IF libraryMetadata.err # NoError
       THEN Caught([f EXCEPT !.calls = @ \cup {"gradle"}], libraryMetadata.err, SyncContext)
       ELSE [f EXCEPT !.pc = "checkRuns", !.calls = @ \cup {"gradle"},
                      !.libraryNames = libraryNames,
                      !.libraryChanges = libraryChanges,
                      !.libraryMetadata = libraryMetadata.v]]
  /\ UNCHANGED <<call, held, stopped, now, host, store, usedIds, req, del, last>>

\* listCheckRuns; then updateLibrariesForRelease and updateChecksForRelease
\* are both called: the sets of the libraries are in the batch before the
\* first await of either
SyncListCheckRuns(t) ==
  LET f == sync[t]
      b == host[f.releaseData.releaseBranchName] IN
  /\ f.pc = "checkRuns"
  /\ sync' = [sync EXCEPT ![t] =
       IF ~b.exists
       THEN Caught([f EXCEPT !.calls = @ \cup {"checkRuns"}], NotFoundError, SyncContext)
       ELSE [f EXCEPT !.pc = "persist", !.calls = @ \cup {"checkRuns"},
                      !.checkRunList = checkRunList(b.check_runs),
                      !.libPc = "read", !.chkPc = "read",
                      !.batch = batchSetLibrariesForRelease(f.libraryMetadata, f.releaseId),
                      !.checksBatch = <<>>]]
  /\ UNCHANGED <<call, held, stopped, now, host, store, usedIds, req, del, last>>

\* a call of the host made for the branch fails for a reason of its own (the
\* network, a rate limit)
SyncHostFailure(t) ==
  LET f == sync[t] IN
  /\ f.pc \in {"fetch", "metadata", "checkRuns"}
  /\ sync' = [sync EXCEPT ![t] =
       Caught([f EXCEPT !.calls = @ \cup
                 (CASE f.pc = "fetch" -> {} [] f.pc = "metadata" -> {"gradle"}
                    [] f.pc = "checkRuns" -> {"checkRuns"})],
              HttpError, SyncContext)]
  /\ UNCHANGED <<call, held, stopped, now, host, store, usedIds, req, del, last>>

\* batchDeleteOptedOutLibraries: the query for the libraries of the release
LibrariesRead(t) ==
  LET f == sync[t]
      ids == Where(libraries, "releaseID", f.releaseId)
      previous == [id \in ids |-> libraries[id]] IN
  /\ f.pc = "persist" /\ f.libPc = "read"
  /\ sync' = [sync EXCEPT ![t] =
       [f EXCEPT !.libPc = "commit",
                 !.batch = @ \o batchDeleteOptedOutLibraries(previous, f.libraryMetadata)]]
  /\ UNCHANGED <<call, held, stopped, now, host, store, usedIds, req, del, last>>

\* the release document patched next, without updateChangesForRelease
PersistedSkippingChanges(f) ==
  IF f.libPc = "done" /\ f.chkPc = "done" THEN [f EXCEPT !.pc = "release"] ELSE f

\* updateChangesForRelease called once the checks have committed, without
\* waiting for the libraries
PersistedEarly(f) ==
  IF f.chkPc = "done" THEN [f EXCEPT !.pc = "changes"] ELSE f

\* updateChangesForRelease called once the libraries have committed, without
\* waiting for the checks
PersistedBeforeChecks(f) ==
  IF f.libPc = "done" THEN [f EXCEPT !.pc = "changes"] ELSE f

\* Promise.all of the two updates resolves when both have committed
Persisted(f) ==
  IF f.libPc = "done" /\ f.chkPc = "done" THEN [f EXCEPT !.pc = "changes"] ELSE f

\* a commit that waits while another invocation for the same release is
\* between its first write and its return
LibrariesCommitLocked(t) ==
  LET f == sync[t] IN
  /\ f.pc = "persist" /\ f.libPc = "commit"
  /\ \A u \in Tasks \ {t} :
       ~(/\ sync[u].releaseId = f.releaseId
         /\ sync[u].pc \in {"persist", "changes", "libraryId", "changesCommit", "release"}
         /\ sync[u].trace # <<>>)
  /\ libraries' = Commit(libraries, f.batch)
  /\ sync' = [sync EXCEPT ![t] =
       Persisted([f EXCEPT !.libPc = "done", !.batch = <<>>,
                           !.trace = Append(@, "libraries")])]
  /\ UNCHANGED <<call, held, stopped, now, host, releases, changes, checks, releaseError, usedIds, req, del, last>>
\* updateLibrariesForRelease: batch.commit()
LibrariesCommit(t) ==
  LET f == sync[t] IN
  /\ f.pc = "persist" /\ f.libPc = "commit"
  /\ libraries' = Commit(libraries, f.batch)
  /\ sync' = [sync EXCEPT ![t] =
       Persisted([f EXCEPT !.libPc = "done", !.batch = <<>>,
                           !.trace = Append(@, "libraries")])]
  /\ UNCHANGED <<call, held, stopped, now, host, releases, changes, checks, releaseError, usedIds, req, del, last>>

\* batchSetReleaseChecks ahead of batchDeleteReleaseChecks
ChecksReadSetFirst(t) ==
  LET f == sync[t]
      previous == Where(checks, "releaseID", f.releaseId) IN
  /\ f.pc = "persist" /\ f.chkPc = "read"
  /\ sync' = [sync EXCEPT ![t] =
       [f EXCEPT !.chkPc = "commit",
                 !.checksBatch = batchSetReleaseChecks(f.checkRunList, f.releaseId)
                                   \o batchDeleteReleaseChecks(previous)]]
  /\ UNCHANGED <<call, held, stopped, now, host, store, usedIds, req, del, last>>

\* batchDeleteReleaseChecks: the query for the checks of the release, then
\* batchSetReleaseChecks
ChecksRead(t) ==
  LET f == sync[t]
      previous == Where(checks, "releaseID", f.releaseId) IN
  /\ f.pc = "persist" /\ f.chkPc = "read"
  /\ sync' = [sync EXCEPT ![t] =
       [f EXCEPT !.chkPc = "commit",
                 !.checksBatch = batchDeleteReleaseChecks(previous)
                                   \o batchSetReleaseChecks(f.checkRunList, f.releaseId)]]
  /\ UNCHANGED <<call, held, stopped, now, host, store, usedIds, req, del, last>>

\* updateChecksForRelease: batch.commit()
ChecksCommit(t) ==
  LET f == sync[t] IN
  /\ f.pc = "persist" /\ f.chkPc = "commit"
  /\ checks' = Commit(checks, f.checksBatch)
  /\ sync' = [sync EXCEPT ![t] =
       Persisted([f EXCEPT !.chkPc = "done", !.checksBatch = <<>>,
                           !.trace = Append(@, "checks")])]
  /\ UNCHANGED <<call, held, stopped, now, host, releases, libraries, changes, releaseError, usedIds, req, del, last>>

\* updateChangesForRelease: batchDeleteOldChanges, the query for the changes
\* of the release
ChangesRead(t) ==
  LET f == sync[t]
      ids == Where(changes, "releaseID", f.releaseId)
      previous == [id \in ids |-> changes[id]] IN
  /\ f.pc = "changes"
  /\ sync' = [sync EXCEPT ![t] =
       [f EXCEPT !.pc = IF Keys(f.libraryChanges) = <<>> THEN "changesCommit"
                        ELSE "libraryId",
                 !.batch = batchDeleteOldChanges(previous, f.libraryChanges),
                 !.keys = Keys(f.libraryChanges)]]
  /\ UNCHANGED <<call, held, stopped, now, host, store, usedIds, req, del, last>>

\* one turn of the loop over the library names: getLibraryId, then
\* batchSetReleaseChanges
ChangesLibraryId(t) ==
  LET f == sync[t]
      libraryName == Head(f.keys)
      libraryId == getLibraryId(libraries, libraryName)
      sets == batchSetReleaseChanges(Get(f.libraryChanges, libraryName),
                                     libraryId.v, f.releaseId) IN
  /\ f.pc = "libraryId"
  /\ sync' = [sync EXCEPT ![t] =
       IF ~libraryId.ok THEN Caught(f, NoLibraryError, SyncContext)
       ELSE IF ~sets.ok THEN Caught(f, NoTitleError, SyncContext)
       ELSE [f EXCEPT !.pc = IF Tail(f.keys) = <<>> THEN "changesCommit" ELSE "libraryId",
                      !.batch = @ \o sets.v,
                      !.keys = Tail(f.keys)]]
  /\ UNCHANGED <<call, held, stopped, now, host, store, usedIds, req, del, last>>

\* updateChangesForRelease: batch.commit()
ChangesCommit(t) ==
  LET f == sync[t] IN
  /\ f.pc = "changesCommit"
  /\ changes' = Commit(changes, f.batch)
  /\ sync' = [sync EXCEPT ![t] =
       [f EXCEPT !.pc = "release", !.batch = <<>>, !.trace = Append(@, "changes")]]
  /\ UNCHANGED <<call, held, stopped, now, host, releases, libraries, checks, releaseError, usedIds, req, del, last>>

\* the invocation stops when the libraries are committed and the changes
\* are not: a query or a commit of updateChecksForRelease or
\* updateChangesForRelease rejects (the store is unavailable) and the catch
\* block hands the rejection to handleReleaseError, or the process ends
\* and nothing more of the invocation runs
SyncStoreFailure(t) ==
  LET f == sync[t] IN
  /\ \/ f.pc = "persist" /\ f.libPc = "done"
     \/ f.pc \in {"changes", "libraryId", "changesCommit"}
  /\ \E ended \in BOOLEAN :
       sync' = [sync EXCEPT ![t] =
                  IF ended THEN [f EXCEPT !.pc = "raised", !.err = UnavailableError]
                  ELSE Caught(f, UnavailableError, SyncContext)]
  /\ stopped' = [releaseId |-> f.releaseId, pre |-> f.pre, now |-> now, host |-> host]
  /\ UNCHANGED <<call, held, now, host, store, usedIds, req, del, last>>
\* a patch that carries the state the release document was read with
updatedReleaseDataStale(f) ==
  [state |-> f.releaseData.state,
   buildArtifactStatus |-> f.buildArtifactWorkflow.status,
   buildArtifactConclusion |-> f.buildArtifactWorkflow.conclusion,
   buildArtifactLink |-> f.buildArtifactWorkflow.html_url,
   buildArtifactJobId |-> f.buildArtifactWorkflow.id]

\* the patch of the release document
updatedReleaseData(f) ==
  [state |-> f.releaseState,
   buildArtifactStatus |-> f.buildArtifactWorkflow.status,
   buildArtifactConclusion |-> f.buildArtifactWorkflow.conclusion,
   buildArtifactLink |-> f.buildArtifactWorkflow.html_url,
   buildArtifactJobId |-> f.buildArtifactWorkflow.id]

\* updateRelease(releaseId, updatedReleaseData): the list validateRelease
\* returns is dropped, releaseDoc.update rejects when there is no document
SyncUpdateRelease(t) ==
  LET f == sync[t] IN
  /\ f.pc = "release"
  /\ IF releaseExists(releases, f.releaseId)
     THEN /\ releases' = UpdateDoc(releases, f.releaseId, updatedReleaseData(f))
          /\ sync' = [sync EXCEPT ![t] =
                        [f EXCEPT !.pc = "returned", !.trace = Append(@, "release")]]
     ELSE /\ sync' = [sync EXCEPT ![t] = Caught(f, NoDocumentError, SyncContext)]
          /\ UNCHANGED releases
  /\ UNCHANGED <<call, held, stopped, now, host, libraries, changes, checks, releaseError, usedIds, req, del, last>>

\* handleReleaseError: getStackTrace and setReleaseError
HandleSetReleaseError(t) ==
  LET f == sync[t] IN
  /\ f.pc = "handle"
  /\ BagCardinality(releaseError) < MaxErrors
  /\ releaseError' = releaseError (+)
                       SetToBag({setReleaseError(f.releaseId, f.err.message,
                                                 getStackTrace(f.err), f.contextMsg, now)})
  /\ sync' = [sync EXCEPT ![t] =
                [f EXCEPT !.pc = "errorState", !.trace = Append(@, "releaseError")]]
  /\ UNCHANGED <<call, held, stopped, now, host, releases, libraries, changes, checks, usedIds, req, del, last>>

\* a handler that also deletes the checks of the release it marks
HandleUpdateReleaseStateClearing(t) ==
  LET f == sync[t] IN
  /\ f.pc = "errorState"
  /\ releaseExists(releases, f.releaseId)
  /\ releases' = UpdateDoc(releases, f.releaseId, [state |-> ERROR])
  /\ checks' = [id \in DOMAIN checks \ Where(checks, "releaseID", f.releaseId) |->
                  checks[id]]
  /\ sync' = [sync EXCEPT ![t] =
                [f EXCEPT !.pc = "raised", !.trace = Append(@, "state")]]
  /\ UNCHANGED <<call, held, stopped, now, host, libraries, changes, releaseError, usedIds, req, del, last>>

\* handleReleaseError: updateReleaseState(releaseId, ERROR), after which the
\* catch block throws err again; when the update rejects, its rejection is
\* what syncReleaseState raises
HandleUpdateReleaseState(t) ==
  LET f == sync[t] IN
  /\ f.pc = "errorState"
  /\ IF releaseExists(releases, f.releaseId)
     THEN /\ releases' = UpdateDoc(releases, f.releaseId, [state |-> ERROR])
          /\ sync' = [sync EXCEPT ![t] =
                        [f EXCEPT !.pc = "raised", !.trace = Append(@, "state")]]
     ELSE /\ sync' = [sync EXCEPT ![t] = [f EXCEPT !.pc = "raised", !.err = NoDocumentError]]
          /\ UNCHANGED releases
  /\ UNCHANGED <<call, held, stopped, now, host, libraries, changes, checks, releaseError, usedIds, req, del, last>>

SyncStep(t) ==
  \/ SyncLoad(t)
  \/ SyncScheduled(t)
  \/ SyncBranch(t)
  \/ SyncFetch(t)
  \/ SyncMetadata(t)
  \/ SyncListCheckRuns(t)
  \/ SyncHostFailure(t)
  \/ LibrariesRead(t)
  \/ LibrariesCommit(t)
  \/ ChecksRead(t)
  \/ ChecksCommit(t)
  \/ ChangesRead(t)
  \/ ChangesLibraryId(t)
  \/ ChangesCommit(t)
  \/ SyncUpdateRelease(t)
  \/ HandleSetReleaseError(t)
  \/ HandleUpdateReleaseState(t)

(***************************************************************************)
(* handlers/handlers.js: the HTTP handlers                                 *)
(***************************************************************************)
Respond(kind, status) ==
  [kind |-> kind, phase |-> "done", status |-> status, body |-> <<>>]

\* res.status(status).json(body) and res.status(status).send(body)
RespondWith(kind, status, body) ==
  [kind |-> kind, phase |-> "done", status |-> status, body |-> body]

\* `Invalid Request - ${release.releaseName} already exists`
AlreadyExists(releaseName) ==
  <<"Invalid Request - ">> \o releaseName \o <<" already exists">>

\* a variant that does not look the names up in the store
AddReleasesCheckOfUnchecked(lists) ==
  /\ Idle
  /\ \E body \in lists :
       /\ Cardinality(ReleaseIds \ usedIds) >= Len(body)
       /\ req' = IF validateNewReleases(body) # <<>>
                 THEN RespondWith("addReleases", 400, validateNewReleases(body))
                 ELSE [kind |-> "addReleases", phase |-> "set", status |-> 0,
                       body |-> body]
  /\ last' = ""
  /\ UNCHANGED <<call, held, stopped, now, host, store, usedIds, sync, del>>
\* addReleases up to the check of the names against the store
AddReleasesCheckOf(lists) ==
  /\ Idle
  /\ \E body \in lists :
       /\ Cardinality(ReleaseIds \ usedIds) >= Len(body)
       /\ LET found == [i \in DOMAIN body |->
                          getReleaseID(releases, body[i].releaseName)]
              stops == {i \in DOMAIN body : ~found[i].ok \/ found[i].v # ""}
              first == CHOOSE i \in stops : \A j \in stops : i <= j
          IN  req' = IF validateNewReleases(body) # <<>>
                     THEN RespondWith("addReleases", 400, validateNewReleases(body))
                     ELSE IF stops # {} /\ found[first].ok
                     THEN RespondWith("addReleases", 400,
                                      AlreadyExists(body[first].releaseName))
                     ELSE IF stops # {}
                     THEN Respond("addReleases", 500)
                     ELSE [kind |-> "addReleases", phase |-> "set", status |-> 0,
                           body |-> body]
  /\ last' = ""
  /\ UNCHANGED <<call, held, stopped, now, host, store, usedIds, sync, del>>

AddReleasesCheck == AddReleasesCheckOf(NewReleaseLists)

\* addReleases with a request that creates one release
AddReleaseCheck == AddReleasesCheckOf({<<Release1>>})

\* convertReleaseDatesToTimestamps and setReleases: one batch, a fresh
\* document for each release; then a task for each release is started
AddReleasesSet ==
  /\ req.kind = "addReleases" /\ req.phase = "set"
  /\ LET rels == convertReleaseDatesToTimestamps(req.body)
         ids == [i \in DOMAIN rels |-> NewIds(usedIds)[i]] IN
       /\ releases' = Commit(releases,
                             [i \in DOMAIN rels |->
                                BatchSet(ids[i], releaseToFirestoreObject(rels[i]))])
       /\ usedIds' = usedIds \cup Range(ids)
       /\ sync' = [t \in Tasks |->
                     IF t \in DOMAIN rels
                     THEN [IdleFrame EXCEPT !.pc = "releaseId",
                                            !.releaseName = rels[t].releaseName]
                     ELSE IdleFrame]
  /\ req' = [req EXCEPT !.phase = "sync"]
  /\ UNCHANGED <<call, held, stopped, now, host, libraries, changes, checks, releaseError, del, last>>

\* the task of a new release: getReleaseID, after which it calls
\* syncReleaseState; what the task throws is logged and dropped
AddReleasesGetId(t) ==
  LET f == sync[t]
      releaseId == getReleaseID(releases, f.releaseName) IN
  /\ f.pc = "releaseId"
  /\ sync' = [sync EXCEPT ![t] =
       IF releaseId.ok /\ releaseId.v # ""
       THEN [CallFrame(releaseId.v) EXCEPT !.releaseName = f.releaseName]
       ELSE [f EXCEPT !.pc = "raised"]]
  /\ UNCHANGED <<call, held, stopped, now, host, store, usedIds, req, del, last>>

\* a variant that answers 500 when a task has raised
AddReleasesRespondFailing ==
  /\ req.kind = "addReleases" /\ req.phase = "sync"
  /\ Running = {}
  /\ \A t \in Tasks : sync[t].pc # "releaseId"
  /\ req' = Respond("addReleases",
                    IF \E t \in Tasks : sync[t].pc = "raised" THEN 500 ELSE 200)
  /\ sync' = [t \in Tasks |-> IdleFrame]
  /\ UNCHANGED <<call, held, stopped, now, host, store, usedIds, del, last>>
AddReleasesRespond ==
  /\ req.kind = "addReleases" /\ req.phase = "sync"
  /\ Running = {}
  /\ \A t \in Tasks : sync[t].pc # "releaseId"
  /\ req' = Respond("addReleases", 200)
  /\ sync' = [t \in Tasks |-> IdleFrame]
  /\ UNCHANGED <<call, held, stopped, now, host, store, usedIds, del, last>>

\* addReleases waits for setReleases after the last getReleaseID has found
\* no release: another request is handled before its batch is written
AddReleasesHold ==
  /\ req.kind = "addReleases" /\ req.phase = "set"
  /\ held = <<>>
  /\ held' = req.body
  /\ req' = NoRequest
  /\ UNCHANGED <<call, stopped, now, host, store, usedIds, sync, del, last>>

\* the request that waited goes on to convertReleaseDatesToTimestamps and
\* setReleases
AddReleasesResume ==
  /\ Idle
  /\ held # <<>>
  /\ Cardinality(ReleaseIds \ usedIds) >= Len(held)
  /\ req' = [kind |-> "addReleases", phase |-> "set", status |-> 0, body |-> held]
  /\ held' = <<>>
  /\ last' = ""
  /\ UNCHANGED <<call, stopped, now, host, store, usedIds, sync, del>>
\* refreshRelease up to the call of syncReleaseState
RefreshRelease ==
  /\ Idle
  /\ \E releaseId \in ReleaseIds :
       IF releaseExists(releases, releaseId)
       THEN /\ req' = [kind |-> "refreshRelease", phase |-> "sync", status |-> 0,
                       body |-> releaseId]
            /\ sync' = [sync EXCEPT ![1] =
                          [CallFrame(releaseId) EXCEPT !.again = (last = releaseId)]]
       ELSE /\ req' = Respond("refreshRelease", 404)
            /\ UNCHANGED sync
  /\ last' = ""
  /\ UNCHANGED <<call, held, stopped, now, host, store, usedIds, del>>

RefreshReleaseRespond ==
  /\ req.kind = "refreshRelease" /\ req.phase = "sync"
  /\ Running = {}
  /\ req' = Respond("refreshRelease", IF sync[1].pc = "raised" THEN 500 ELSE 200)
  /\ sync' = [t \in Tasks |-> IdleFrame]
  /\ last' = IF sync[1].pc = "returned" /\ "libraries" \in Range(sync[1].trace)
             THEN sync[1].releaseId ELSE ""
  /\ UNCHANGED <<call, held, stopped, now, host, store, usedIds, del>>

\* modifyRelease: convertReleaseDatesToTimestamps is handed the release
\* object of the request, which has no map: the TypeError is answered 500,
\* before updateRelease and syncReleaseState
\* a variant that writes the release object before it validates it
ModifyReleaseWithUnvalidated(releaseId, release) ==
  /\ Idle
  /\ req' = IF ~releaseExists(releases, releaseId)
            THEN Respond("modifyRelease", 404)
            ELSE IF validateRelease(release) # <<>>
            THEN RespondWith("modifyRelease", 400, validateRelease(release))
            ELSE Respond("modifyRelease", 500)
  /\ releases' = IF releaseExists(releases, releaseId)
                 THEN UpdateDoc(releases, releaseId, release)
                 ELSE releases
  /\ last' = ""
  /\ UNCHANGED <<call, held, stopped, now, host, libraries, changes, checks, releaseError, usedIds,
                 sync, del>>
ModifyReleaseWith(releaseId, release) ==
  /\ Idle
  /\ req' = IF ~releaseExists(releases, releaseId)
            THEN Respond("modifyRelease", 404)
            ELSE IF validateRelease(release) # <<>>
            THEN RespondWith("modifyRelease", 400, validateRelease(release))
            ELSE Respond("modifyRelease", 500)
  /\ last' = ""
  /\ UNCHANGED <<call, held, stopped, now, host, store, usedIds, sync, del>>

ModifyRelease ==
  \E releaseId \in ReleaseIds, release \in ReleasePatches :
    ModifyReleaseWith(releaseId, release)

\* the response of a deleteRelease request, which is kept when no other
\* request is being handled
DeleteResponse(status) ==
  IF req.phase = "done" THEN Respond("deleteRelease", status) ELSE req

\* a deleteAllReleaseData without batchDeleteReleaseChecks
DeleteReleaseWhenKeepingChecks(taken) ==
  /\ taken
  /\ del.phase = "done"
  /\ \E releaseId \in ReleaseIds :
       IF releaseExists(releases, releaseId)
       THEN /\ del' = [phase |-> "commit", releaseId |-> releaseId,
                       libraries |-> Where(libraries, "releaseID", releaseId),
                       changes |-> Where(changes, "releaseID", releaseId),
                       checks |-> {}]
            /\ UNCHANGED req
       ELSE /\ req' = DeleteResponse(404)
            /\ UNCHANGED del
  /\ last' = ""
  /\ UNCHANGED <<call, held, stopped, now, host, store, usedIds, sync>>

\* deleteRelease up to the queries of deleteAllReleaseData, whose batch
\* deletes the libraries, changes and checks found and the release document
DeleteReleaseWhen(taken) ==
  /\ taken
  /\ del.phase = "done"
  /\ \E releaseId \in ReleaseIds :
       IF releaseExists(releases, releaseId)
       THEN /\ del' = [phase |-> "commit", releaseId |-> releaseId,
                       libraries |-> Where(libraries, "releaseID", releaseId),
                       changes |-> Where(changes, "releaseID", releaseId),
                       checks |-> Where(checks, "releaseID", releaseId)]
            /\ UNCHANGED req
       ELSE /\ req' = DeleteResponse(404)
            /\ UNCHANGED del
  /\ last' = ""
  /\ UNCHANGED <<call, held, stopped, now, host, store, usedIds, sync>>

\* a deleteRelease request that is handled on its own
DeleteRelease == DeleteReleaseWhen(Idle)

\* a deleteRelease request that arrives while another request is handled
DeleteReleaseDuring == DeleteReleaseWhen(req.phase # "done")

\* deleteAllReleaseData: batch.commit()
DeleteReleaseCommit ==
  /\ del.phase = "commit"
  /\ libraries' = [id \in DOMAIN libraries \ del.libraries |-> libraries[id]]
  /\ changes' = [id \in DOMAIN changes \ del.changes |-> changes[id]]
  /\ checks' = [id \in DOMAIN checks \ del.checks |-> checks[id]]
  /\ releases' = DeleteDoc(releases, del.releaseId)
  /\ del' = NoDelete
  /\ req' = DeleteResponse(200)
  /\ last' = ""
  /\ UNCHANGED <<call, held, stopped, now, host, releaseError, usedIds, sync>>

(***************************************************************************)
(* github/webhooks.js                                                      *)
(***************************************************************************)
\* a variant that handles the check run of the request before it looks at
\* the signature
WebhookUnsignedHandled ==
  /\ Idle
  /\ checks' = updateCheckRunStatus(checks, "k1", "sha2", "completed", "success")
  /\ req' = Respond("githubWebhook", 401)
  /\ last' = ""
  /\ UNCHANGED <<call, held, stopped, now, host, releases, libraries, changes, releaseError, usedIds, sync, del>>
\* githubWebhook with a request whose signature does not verify
WebhookUnsigned ==
  /\ Idle
  /\ req' = Respond("githubWebhook", 401)
  /\ last' = ""
  /\ UNCHANGED <<call, held, stopped, now, host, store, usedIds, sync, del>>

\* handleCheckRunEvent: getReleaseIdFromBranch is not awaited, so releaseId
\* is a promise, which is truthy whatever it resolves to, and
\* updateCheckRunStatus is called for every check run
CheckRunEventOf(id, branch) ==
  /\ Idle
  /\ checks' = updateCheckRunStatus(checks, id, "sha2", "completed", "success")
  /\ req' = Respond("githubWebhook", 200)
  /\ last' = ""
  /\ UNCHANGED <<call, held, stopped, now, host, releases, libraries, changes, releaseError, usedIds, sync, del>>

\* githubWebhook with a check_run event whose signature verifies: the event
\* names a check run and the head branch of its check suite
CheckRunEvent == \E id \in {"k1"}, branch \in Branches : CheckRunEventOf(id, branch)

(***************************************************************************)
(* github/webhooks.js: the pull_request events                             *)
(***************************************************************************)
\* the head of a payload that has no pull_request
NoPullRequest == ""

\* githubWebhook with a pull_request event whose signature verifies, up to
\* the call of syncReleaseState: an action other than opened and synchronize
\* is passed over; payload.pull_request.head of a payload without a
\* pull_request throws, which githubWebhook answers 500; a branch no release
\* tracks is passed over
PullRequestEvent ==
  /\ Idle
  /\ \E action \in {"opened", "synchronize", "closed"},
        head \in Branches \cup {NoPullRequest} :
       LET releaseId == getReleaseIdFromBranch(releases, head) IN
       IF action = "closed"
       THEN req' = Respond("githubWebhook", 200) /\ UNCHANGED sync
       ELSE IF head = NoPullRequest
       THEN req' = Respond("githubWebhook", 500) /\ UNCHANGED sync
       ELSE IF releaseId = ""
       THEN req' = Respond("githubWebhook", 200) /\ UNCHANGED sync
       ELSE /\ req' = [kind |-> "githubWebhook", phase |-> "sync", status |-> 0,
                       body |-> <<>>]
            /\ sync' = [sync EXCEPT ![1] = CallFrame(releaseId)]
  /\ last' = ""
  /\ UNCHANGED <<call, held, stopped, now, host, store, usedIds, del>>

\* what syncReleaseState throws is logged, and the event is answered 200
PullRequestRespond ==
  /\ req.kind = "githubWebhook" /\ req.phase = "sync"
  /\ Running = {}
  /\ req' = Respond("githubWebhook", 200)
  /\ sync' = [t \in Tasks |-> IdleFrame]
  /\ last' = IF sync[1].pc = "returned" /\ "libraries" \in Range(sync[1].trace)
             THEN sync[1].releaseId ELSE ""
  /\ UNCHANGED <<call, held, stopped, now, host, store, usedIds, del>>

\* githubWebhook with a pull_request event (opened or synchronize) that
\* arrives while the releases of an addReleases request are synchronised:
\* handlePullRequestEvent calls syncReleaseState for the release that tracks
\* the head branch, in a second invocation; what that invocation throws is
\* logged, and the answer of the webhook writes nothing
PullRequestDuring ==
  /\ req.kind = "addReleases" /\ req.phase = "sync"
  /\ sync[2].pc = "idle"
  /\ \E action \in {"opened", "synchronize"}, head \in Branches :
       LET releaseId == getReleaseIdFromBranch(releases, head) IN
       /\ releaseId # ""
       /\ sync' = [sync EXCEPT ![2] = CallFrame(releaseId)]
  /\ UNCHANGED <<call, held, stopped, now, host, store, usedIds, req, del, last>>

(***************************************************************************)
(* The system, its requests handled one at a time                          *)
(***************************************************************************)
Next ==
  \/ Tick
  \/ HostChange
  \/ AddReleasesCheck
  \/ AddReleasesSet
  \/ AddReleasesRespond
  \/ RefreshRelease
  \/ RefreshReleaseRespond
  \/ ModifyRelease
  \/ DeleteRelease
  \/ DeleteReleaseCommit
  \/ WebhookUnsigned
  \/ CheckRunEvent
  \/ \E t \in Tasks : AddReleasesGetId(t) \/ SyncStep(t)

Spec == Init /\ [][Next]_vars

(***************************************************************************)
(* The system with deleteRelease requests that arrive while a release is   *)
(* created or refreshed                                                    *)
(***************************************************************************)
NextDuring ==
  \/ Tick
  \/ HostChange
  \/ AddReleaseCheck
  \/ AddReleasesSet
  \/ AddReleasesRespond
  \/ RefreshRelease
  \/ RefreshReleaseRespond
  \/ DeleteReleaseDuring
  \/ DeleteReleaseCommit
  \/ \E t \in Tasks : AddReleasesGetId(t) \/ SyncStep(t)

SpecDuring == Init /\ [][NextDuring]_vars

(***************************************************************************)
(* The system with the events the host delivers: releases are created, and *)
(* every other request is a webhook                                        *)
(***************************************************************************)
NextWebhook ==
  \/ Tick
  \/ HostChange
  \/ AddReleasesCheck
  \/ AddReleasesSet
  \/ AddReleasesRespond
  \/ WebhookUnsigned
  \/ CheckRunEvent
  \/ PullRequestEvent
  \/ PullRequestRespond
  \/ \E t \in Tasks : AddReleasesGetId(t) \/ SyncStep(t)

SpecWebhook == Init /\ [][NextWebhook]_vars

(***************************************************************************)
(* The system with a request that is handled between the check of the      *)
(* names of an addReleases request and the write of its releases; the      *)
(* clock and the repository stand still                                    *)
(***************************************************************************)
NextInterleaved ==
  \/ AddReleasesCheck
  \/ AddReleasesHold
  \/ AddReleasesResume
  \/ AddReleasesSet
  \/ AddReleasesRespond
  \/ ModifyRelease
  \/ DeleteRelease
  \/ DeleteReleaseCommit
  \/ \E t \in Tasks : AddReleasesGetId(t) \/ SyncStep(t)

SpecInterleaved == Init /\ [][NextInterleaved]_vars

(***************************************************************************)
(* The system with a store that can reject the writes of a synchronisation *)
(* once its libraries are committed: one release is created and refreshed  *)
(***************************************************************************)
NextRecovery ==
  \/ Tick
  \/ HostChange
  \/ AddReleaseCheck
  \/ AddReleasesSet
  \/ AddReleasesRespond
  \/ RefreshRelease
  \/ RefreshReleaseRespond
  \/ \E t \in Tasks : AddReleasesGetId(t) \/ SyncStep(t) \/ SyncStoreFailure(t)

SpecRecovery == Init /\ [][NextRecovery]_vars

(***************************************************************************)
(* The system with a release whose library is first reported with no       *)
(* change: one release is created and refreshed                            *)
(***************************************************************************)
NextGrouped ==
  \/ Tick
  \/ HostRegroup
  \/ AddReleaseCheck
  \/ AddReleasesSet
  \/ AddReleasesRespond
  \/ RefreshRelease
  \/ RefreshReleaseRespond
  \/ \E t \in Tasks : AddReleasesGetId(t) \/ SyncStep(t)

SpecGrouped == Init /\ [][NextGrouped]_vars

(***************************************************************************)
(* The system followed past the release date: one release is created with  *)
(* its completion flag set, refreshed, and modified                        *)
(***************************************************************************)
NextLate ==
  \/ TickLate
  \/ HostChange
  \/ AddReleaseCheck
  \/ AddReleasesSet
  \/ AddReleasesRespond
  \/ RefreshRelease
  \/ RefreshReleaseRespond
  \/ ModifyRelease
  \/ \E t \in Tasks : AddReleasesGetId(t) \/ SyncStep(t)

SpecLate == Init /\ [][NextLate]_vars

(***************************************************************************)
(* The system with two invocations of syncReleaseState for one release: a  *)
(* release is created, and while it is synchronised the branch is pushed   *)
(* to and the pull_request event of the push is delivered                  *)
(***************************************************************************)
NextOverlap ==
  \/ Push
  \/ AddReleaseCheck
  \/ AddReleasesSet
  \/ AddReleasesRespond
  \/ PullRequestDuring
  \/ \E t \in Tasks : AddReleasesGetId(t) \/ SyncStep(t)

SpecOverlap == Init /\ [][NextOverlap]_vars

(***************************************************************************)
(* utils/utils.js: calculateReleaseState called on its own, with dates     *)
(* that validateReleaseDates has not seen                                  *)
(***************************************************************************)
\* the dates of a call lie within this many days of the epoch
MaxDays == 2

\* midnight, a millisecond to either side of it, and noon
Instants ==
  {d * MsPerDay + o : d \in (0 - MaxDays)..MaxDays, o \in {0 - 1, 0, 1, MsPerDay \div 2}}

CalculateReleaseStateCalls ==
  [fn : {"calculateReleaseState"}, pc : {"called"}, codeFreeze : Instants,
   release : Instants, isComplete : BOOLEAN, out : {""}]

InitClassifier == Deployed /\ call \in CalculateReleaseStateCalls

\* the call returns a state or throws
CallCalculateReleaseState ==
  LET out == calculateReleaseState(call.codeFreeze, call.release, call.isComplete, now) IN
  /\ call.fn = "calculateReleaseState"
  /\ call.pc = "called"
  /\ call' = [call EXCEPT !.pc = IF out = Indeterminate THEN "raised" ELSE "returned",
                          !.out = out]
  /\ UNCHANGED <<held, stopped, now, host, store, usedIds, req, del, sync, last>>

NextClassifier == CallCalculateReleaseState

SpecClassifier == InitClassifier /\ [][NextClassifier]_vars

(***************************************************************************)
(* handlers/handlers.js 516-531: the library names of release.json and the *)
(* changes of the release report made into the library metadata, for any   *)
(* release.json and any report a branch may hold                           *)
(***************************************************************************)
\* release.json lists, and the report has changes for, at most this many
\* libraries
MaxKeys == 2

\* the sequences of at most n elements of S, none of them twice
ListsOf(S, n) ==
  {l \in UNION {[1..k -> S] : k \in 0..n} :
     \A i, j \in DOMAIN l : i # j => l[i] # l[j]}

\* the names release.json may list: two libraries and the ktx module of one
ManifestNames == {Colon \o LibA, Colon \o LibA \o ColonKtx, Colon \o LibB}

\* the names the report may have changes under: the two libraries, the ktx
\* module of one, and the ktx module of a library in a directory of its own
ReportKeys == {LibA, LibA \o SlashKtx, LibB, LibA \o <<"/">> \o LibB \o SlashKtx}

Reports ==
  {r \in UNION {[1..k -> [k : ReportKeys, v : {<<>>, <<Change1>>, <<Change2>>}]] :
                  k \in 0..MaxKeys} :
     \A i, j \in DOMAIN r : i # j => r[i].k # r[j].k}

GetLibraryMetadataCalls ==
  [fn : {"getLibraryMetadata"}, pc : {"called"},
   libraries : ListsOf(ManifestNames, MaxKeys), changesByLibraryName : Reports,
   libraryNames : {<<>>}, libraryChanges : {<<>>}, libraryMetadata : {<<>>}]

InitReconciler == Deployed /\ call \in GetLibraryMetadataCalls

\* processLibraryNames, filterOutKtx and mergeKtxIntoRoot
CallMergeKtxIntoRoot ==
  /\ call.fn = "getLibraryMetadata"
  /\ call.pc = "called"
  /\ call' = [call EXCEPT
       !.pc = "folded",
       !.libraryNames = filterOutKtx(processLibraryNames(call.libraries)),
       !.libraryChanges = mergeKtxIntoRoot(call.changesByLibraryName)]
  /\ UNCHANGED <<held, stopped, now, host, store, usedIds, req, del, sync, last>>

\* getLibraryMetadata, which reads the gradle.properties files of the branch
\* that is cut
CallGetLibraryMetadata ==
  LET libraryMetadata ==
        getLibraryMetadata(host["b2"], call.libraryNames, call.libraryChanges) IN
  /\ call.fn = "getLibraryMetadata"
  /\ call.pc = "folded"
  /\ call' = [call EXCEPT
       !.pc = IF libraryMetadata.err = NoError THEN "returned" ELSE "raised",
       !.libraryMetadata = libraryMetadata.v]
  /\ UNCHANGED <<held, stopped, now, host, store, usedIds, req, del, sync, last>>

NextReconciler == CallMergeKtxIntoRoot \/ CallGetLibraryMetadata

SpecReconciler == InitReconciler /\ [][NextReconciler]_vars

(***************************************************************************)
(* utils/utils.js 105-117: parseGradlePropertiesForVersion called on its   *)
(* own, with the content of any gradle.properties file of a few lines     *)
(***************************************************************************)
\* a gradle.properties file has at most this many lines
MaxLines == 2

\* what may stand to the right of the "=" of a version line
VersionValues ==
  {<<"1">>, <<"1", ".", "2">>, <<"7", "=", "8", "=", "9">>,
   <<"1", ".", "2", "-", "b", "3">>, <<"1", " ">>}

\* a version line, indented or commented out or neither, with or without
\* white space around its "=", and the lines that are not one
PropertyLines ==
  {indent \o VersionWord \o equals \o value :
     indent \in {<<>>, <<" ">>, <<"#">>},
     equals \in {<<"=">>, <<" ", "=", " ">>},
     value \in VersionValues}
  \cup {VersionWord, <<"x", "=", "1">>}

RECURSIVE JoinLines(_)
JoinLines(lines) ==
  IF Len(lines) = 1 THEN lines[1]
  ELSE lines[1] \o <<"\n">> \o JoinLines(Tail(lines))

GradleProperties ==
  {JoinLines(lines) : lines \in UNION {[1..n -> PropertyLines] : n \in 1..MaxLines}}

ParseGradlePropertiesCalls ==
  [fn : {"parseGradlePropertiesForVersion"}, pc : {"called"},
   content : GradleProperties, out : {<<>>}]

InitParser == Deployed /\ call \in ParseGradlePropertiesCalls

\* the call returns the version or throws
CallParseGradlePropertiesForVersion ==
  LET version == parseGradlePropertiesForVersion(call.content) IN
  /\ call.fn = "parseGradlePropertiesForVersion"
  /\ call.pc = "called"
  /\ call' = [call EXCEPT !.pc = IF version.ok THEN "returned" ELSE "raised",
                          !.out = version.v]
  /\ UNCHANGED <<held, stopped, now, host, store, usedIds, req, del, sync, last>>

NextParser == CallParseGradlePropertiesForVersion

SpecParser == InitParser /\ [][NextParser]_vars

(***************************************************************************)
(* Properties of syncReleaseState                                          *)
(***************************************************************************)
\* how often x occurs in the sequence s
Count(s, x) == Cardinality({i \in DOMAIN s : s[i] = x})

\* the number of the documents of releaseError that name the release
ErrorRows(errors, releaseId) ==
  LET rows == {r \in BagToSet(errors) : r.releaseID = releaseId}
  IN  BagCardinality([r \in rows |-> errors[r]])

\* every y of the sequence tr has an x before it
Precedes(tr, x, y) ==
  \A i \in DOMAIN tr : tr[i] = y => \E j \in 1..(i - 1) : tr[j] = x

\* the invocation of task t is the only one of its request
Alone(t) == \A u \in Tasks \ {t} : sync[u].pc = "idle"

\* C1: an invocation of syncReleaseState that has raised what one of its
\* catch blocks caught (a failure of the branch probe, of a fetch, of the
\* reconciliation, of the listing of the check runs or of a write) has added
\* one document naming its release to releaseError and no more, has set the
\* state of the release once, to ERROR, as the last of its writes, and raises
\* the error it caught.
C1_FailureRecordedAndRaised ==
  \A t \in Tasks :
    LET f == sync[t] IN
    (f.pc = "raised" /\ f.caught # NoError) =>
      /\ ErrorRows(releaseError, f.releaseId) = ErrorRows(f.pre[5], f.releaseId) + 1
      /\ Count(f.trace, "releaseError") = 1
      /\ Count(f.trace, "state") = 1
      /\ f.trace[Len(f.trace)] = "state"
      /\ releases[f.releaseId].state = ERROR
      /\ f.err = f.caught

\* an invocation has raised after a write failed: the libraries and the
\* checks are written, a commit title of the changes cannot be parsed
C1_Witness ==
  \E t \in Tasks :
    /\ sync[t].pc = "raised" /\ sync[t].caught = NoTitleError
    /\ "libraries" \in Range(sync[t].trace)
    /\ releases[sync[t].releaseId].state = ERROR

C3_ChangesAfterLibraries ==
  \A t \in Tasks :
    LET f == sync[t] IN
    /\ f.pc \in {"changes", "libraryId", "changesCommit"} =>
         "libraries" \in Range(f.trace)
    /\ Precedes(f.trace, "libraries", "changes")

\* an invocation is about to commit a batch of changes that is not empty
C3_Witness ==
  \E t \in Tasks :
    /\ sync[t].pc = "changesCommit"
    /\ \E i \in DOMAIN sync[t].batch : sync[t].batch[i].op = "set"

\* C4, as the specification states it: the batch of the checks neither
\* passes its query nor commits before the batch of the libraries has
\* committed.
C4_ChecksAfterLibraries ==
  \A t \in Tasks :
    LET f == sync[t] IN
    /\ f.chkPc \in {"commit", "done"} => "libraries" \in Range(f.trace)
    /\ Precedes(f.trace, "libraries", "checks")

\* C4, amended: the batches of the libraries and of the checks run side by
\* side and commit in either order; the batch of the changes starts after
\* both have committed, and the release document is written after the
\* changes have committed.
C4_PersistenceOrder ==
  \A t \in Tasks :
    LET f == sync[t] IN
    /\ f.pc \in {"changes", "libraryId", "changesCommit", "release"} =>
         /\ Count(f.trace, "libraries") = 1
         /\ Count(f.trace, "checks") = 1
    /\ f.pc = "persist" =>
         /\ f.libPc \in {"read", "commit", "done"}
         /\ f.chkPc \in {"read", "commit", "done"}
         /\ ~(f.libPc = "done" /\ f.chkPc = "done")
         /\ "changes" \notin Range(f.trace)
    /\ Precedes(f.trace, "libraries", "changes")
    /\ Precedes(f.trace, "checks", "changes")
    /\ Precedes(f.trace, "changes", "release")

\* an invocation has returned whose batch of the checks committed before its
\* batch of the libraries
C4_Witness ==
  \E t \in Tasks :
    /\ sync[t].pc = "returned"
    /\ sync[t].trace = <<"checks", "libraries", "changes", "release">>

\* the document differs from the document old in its state at most
OnlyStateChanged(old, doc) ==
  /\ DOMAIN doc = DOMAIN old \cup {"state"}
  /\ \A field \in DOMAIN old \ {"state"} : doc[field] = old[field]

\* the release documents other than that of releaseId are those of rels
OthersUnchanged(rels, releaseId) ==
  /\ DOMAIN releases \ {releaseId} = DOMAIN rels \ {releaseId}
  /\ \A id \in DOMAIN rels \ {releaseId} : releases[id] = rels[id]

\* C5: an invocation that classifies its release as SCHEDULED calls the host
\* for nothing and does not raise; its one write sets the state of the
\* release document, whose other fields stay as they were read; nothing
\* else in the store differs from what the invocation found, where no other
\* invocation ran next to it.
C5_ScheduledWritesStateOnly ==
  \A t \in Tasks :
    LET f == sync[t] IN
    f.releaseState = SCHEDULED =>
      /\ f.pc \in {"scheduled", "returned"}
      /\ f.calls = {}
      /\ f.pc = "scheduled" => f.trace = <<>>
      /\ f.pc = "returned" =>
           /\ f.trace = <<"state">>
           /\ releases[f.releaseId].state = SCHEDULED
           /\ OnlyStateChanged(f.pre[1][f.releaseId], releases[f.releaseId])
           /\ Alone(t) =>
                /\ OthersUnchanged(f.pre[1], f.releaseId)
                /\ <<libraries, changes, checks, releaseError>>
                     = <<f.pre[2], f.pre[3], f.pre[4], f.pre[5]>>

\* an invocation has returned for a SCHEDULED release while the store holds
\* a check
C5_Witness ==
  \E t \in Tasks :
    /\ sync[t].pc = "returned" /\ sync[t].releaseState = SCHEDULED /\ Alone(t)
    /\ checks # <<>>

\* C6: when an invocation has returned, the state of its release is the
\* state calculateReleaseState gave it for the dates and the completion flag
\* it read, one of the five states that are not ERROR.
C6_ReturnedStateIsClassified ==
  \A t \in Tasks :
    LET f == sync[t]
        old == f.pre[1][f.releaseId] IN
    f.pc = "returned" =>
      /\ releases[f.releaseId].state = f.releaseState
      /\ f.releaseState = calculateReleaseState(old.codeFreezeDate, old.releaseDate,
                                                isComplete(old), now)
      /\ f.releaseState \in {SCHEDULED, CODE_FREEZE, RELEASE_DAY, RELEASED, DELAYED}

\* an invocation has returned for a release that it found in ERROR
C6_Witness ==
  \E t \in Tasks :
    /\ sync[t].pc = "returned"
    /\ sync[t].pre[1][sync[t].releaseId].state = ERROR
    /\ releases[sync[t].releaseId].state # ERROR

\* the release has a document whose state is ERROR
InError(rels, releaseId) ==
  releaseId \in DOMAIN rels /\ rels[releaseId].state = ERROR

\* C7: a release comes to be in ERROR only by the step in which the error
\* handler of an invocation for that release sets its state, and a release
\* in ERROR whose document stays in the store leaves ERROR only by the step
\* in which an invocation for that release returns.
C7_ErrorOwnedBySync == [][
  \A releaseId \in ReleaseIds :
    /\ (~InError(releases, releaseId) /\ InError(releases', releaseId)) =>
         \E t \in Tasks : /\ sync[t].releaseId = releaseId
                          /\ sync[t].pc = "errorState" /\ sync'[t].pc = "raised"
    /\ (InError(releases, releaseId) /\ releaseId \in DOMAIN releases'
          /\ ~InError(releases', releaseId)) =>
         \E t \in Tasks : /\ sync[t].releaseId = releaseId
                          /\ sync[t].pc \in {"scheduled", "release"}
                          /\ sync'[t].pc = "returned"
  ]_vars

\* a release is in ERROR after a modifyRelease request for it was answered
\* and while an invocation for another release has returned
C7_Witness ==
  \E releaseId \in ReleaseIds :
    /\ InError(releases, releaseId)
    /\ \/ req.kind \in {"modifyRelease", "githubWebhook"}
       \/ \E t \in Tasks : sync[t].pc = "returned" /\ sync[t].releaseId # releaseId

\* C9: an invocation whose branch probe failed, or whose fetch of the release
\* config, of the release report or of the build workflow failed, writes no
\* library, change or check; those collections are as the invocation found
\* them, where no other invocation ran next to it.
C9_FetchFailureWritesNoData ==
  \A t \in Tasks :
    LET f == sync[t] IN
    (f.caught # NoError /\ (f.contextMsg = BranchContext \/ "gradle" \notin f.calls)) =>
      /\ f.calls \subseteq {"branch", "config", "report", "workflow"}
      /\ Range(f.trace) \subseteq {"releaseError", "state"}
      /\ Alone(t) => <<libraries, changes, checks>> = <<f.pre[2], f.pre[3], f.pre[4]>>

\* an invocation has raised after one of its three fetches failed, for a
\* release that has libraries, changes and checks in the store
C9_Witness ==
  \E t \in Tasks :
    /\ sync[t].pc = "raised" /\ sync[t].caught = HttpError /\ Alone(t)
    /\ sync[t].calls = {"branch", "config", "report", "workflow"}
    /\ Where(libraries, "releaseID", sync[t].releaseId) # {}
    /\ Where(changes, "releaseID", sync[t].releaseId) # {}
    /\ Where(checks, "releaseID", sync[t].releaseId) # {}

\* C10: an invocation that has written the libraries, the changes, the checks
\* and the release, right after another such invocation for the same release
\* and with the repository unchanged, leaves the libraries, the changes and
\* the checks as it found them.
C10_SecondSyncChangesNothing ==
  \A t \in Tasks :
    LET f == sync[t] IN
    (f.pc = "returned" /\ f.again /\ "release" \in Range(f.trace)) =>
      <<libraries, changes, checks>> = <<f.pre[2], f.pre[3], f.pre[4]>>

\* the second of two such invocations has returned, and the release has
\* libraries, changes and checks in the store
C10_Witness ==
  \E t \in Tasks :
    /\ sync[t].pc = "returned" /\ sync[t].again /\ "release" \in Range(sync[t].trace)
    /\ Where(libraries, "releaseID", sync[t].releaseId) # {}
    /\ Where(changes, "releaseID", sync[t].releaseId) # {}
    /\ Where(checks, "releaseID", sync[t].releaseId) # {}

(***************************************************************************)
(* Properties of syncReleaseState next to a deleteRelease request          *)
(***************************************************************************)
\* C8: an invocation that finds no document for its releaseId raises the
\* error of getReleaseData at once: it calls the host for nothing, no catch
\* block handles the error, and it writes nothing, so that the store is as
\* the invocation found it.
C8_MissingReleaseFailsFast ==
  \A t \in Tasks :
    LET f == sync[t] IN
    (f.pre # <<>> /\ f.releaseId \notin DOMAIN f.pre[1]) =>
      /\ f.pc = "raised"
      /\ f.err = NoReleaseError /\ f.caught = NoError
      /\ f.calls = {}
      /\ f.trace = <<>>
      /\ store = f.pre

\* an invocation has raised for a release that a deleteRelease request took
\* from the store, which holds a document of releaseError
C8_Witness ==
  \E t \in Tasks :
    /\ sync[t].pc = "raised" /\ sync[t].err = NoReleaseError
    /\ sync[t].releaseId \notin DOMAIN releases
    /\ releaseError # EmptyBag


\* the frames in which updateLibrariesForRelease has committed and the sync
\* has not failed since
LibrariesCommitted(t) ==
  /\ sync[t].pc \in {"persist", "changes", "libraryId", "changesCommit", "release"}
  /\ sync[t].libPc = "done"

\* C11: once updateLibrariesForRelease has committed, the Library rows of
\* the release are exactly one row for each key of the metadata, carrying
\* that key's current updatedVersion; no row of an older version is left
C11_LibrariesReplaced ==
  \A t \in Tasks :
    LET f == sync[t]
        rows == Where(libraries, "releaseID", f.releaseId) IN
    (LibrariesCommitted(t) /\ Alone(t)) =>
      /\ \A i \in DOMAIN f.libraryMetadata :
           Cardinality({id \in rows :
                          libraries[id].libraryName = f.libraryMetadata[i].k}) = 1
      /\ \A id \in rows :
           \E i \in DOMAIN f.libraryMetadata :
             /\ libraries[id].libraryName = f.libraryMetadata[i].k
             /\ libraries[id].updatedVersion = f.libraryMetadata[i].v.updatedVersion

\* a sync has committed the libraries of a release that had a row of another
\* version of one of them
C11_Witness ==
  \E t \in Tasks :
    LET f == sync[t] IN
    /\ LibrariesCommitted(t) /\ Alone(t)
    /\ \E id \in DOMAIN f.pre[2] :
         \E i \in DOMAIN f.libraryMetadata :
           /\ f.pre[2][id].releaseID = f.releaseId
           /\ f.pre[2][id].libraryName = f.libraryMetadata[i].k
           /\ f.pre[2][id].updatedVersion # f.libraryMetadata[i].v.updatedVersion


\* the library name that the loop of updateChangesForRelease resolves next
\* has no Library row of the release of the frame
NoRowForRelease(f) ==
  \A id \in Where(libraries, "libraryName", Head(f.keys)) :
    libraries[id].releaseID # f.releaseId

\* C12: when a library name of the change map has no Library row written
\* for this release, updateChangesForRelease fails with the unknown-library
\* error and its batch is not committed
C12_UnknownLibraryFails == [][
  \A t \in Tasks :
    (/\ sync[t].pc = "libraryId"
     /\ sync'[t] # sync[t]
     /\ NoRowForRelease(sync[t]))
    => /\ sync'[t].pc = "handle"
       /\ sync'[t].err = NoLibraryError
       /\ sync'[t].batch = <<>>
       /\ changes' = changes
  ]_vars

\* updateChangesForRelease is about to resolve a name that has no Library
\* row of its release
C12_Witness ==
  \E t \in Tasks : sync[t].pc = "libraryId" /\ NoRowForRelease(sync[t])


\* the step at which the batch of deleteAllReleaseData commits
DeleteCommits == del.phase = "commit" /\ del'.phase = "done"

\* C13: when deleteAllReleaseData has completed, the Release document is
\* gone and no Library, Change or CheckRun document carries its releaseID
C13_NoOrphanRows == [][
  DeleteCommits =>
    /\ ~releaseExists(releases', del.releaseId)
    /\ Where(libraries', "releaseID", del.releaseId) = {}
    /\ Where(changes', "releaseID", del.releaseId) = {}
    /\ Where(checks', "releaseID", del.releaseId) = {}
  ]_vars

\* a deleteRelease request has been answered 200 for a release whose last
\* sync had committed libraries and checks before it failed on a commit title
C13_Witness ==
  /\ req = Respond("deleteRelease", 200)
  /\ \E row \in BagToSet(releaseError) :
       /\ ~releaseExists(releases, row.releaseID)
       /\ row.stackTrace = getStackTrace(NoTitleError)

\* C14: when deleteRelease has succeeded for a release, no ReleaseError row
\* references that release
C14_ErrorHistoryDeleted == [][
  DeleteCommits =>
    \A row \in BagToSet(releaseError') : row.releaseID # del.releaseId
  ]_vars

\* the batch of deleteAllReleaseData is about to commit for a release that
\* has a ReleaseError row
C14_Witness ==
  /\ del.phase = "commit"
  /\ \E row \in BagToSet(releaseError) : row.releaseID = del.releaseId


\* C15: a call of setReleaseError adds exactly one ReleaseError row, which
\* carries the releaseID, the error message, the stack trace, the context
\* message and the timestamp, and leaves the rows there were as they are
C15_ErrorRowComplete == [][
  \A t \in Tasks :
    (sync[t].pc = "handle" /\ sync'[t].pc = "errorState") =>
      \E row \in BagToSet(releaseError') :
        /\ releaseError' = releaseError (+) SetToBag({row})
        /\ DOMAIN row = {"releaseID", "message", "stackTrace", "contextMsg", "timestamp"}
        /\ row.releaseID = sync[t].releaseId
        /\ row.message = sync[t].err.message
        /\ row.stackTrace = getStackTrace(sync[t].err)
        /\ row.contextMsg = sync[t].contextMsg
        /\ row.timestamp = now
  ]_vars

\* setReleaseError has returned for an error that has a message, with a row
\* of an earlier failure in the collection
C15_Witness ==
  \E t \in Tasks :
    /\ sync[t].pc = "errorState"
    /\ sync[t].err.message # ""
    /\ BagCardinality(releaseError) = 2


(***************************************************************************)
(* Properties of calculateReleaseState                                     *)
(***************************************************************************)
\* the call of calculateReleaseState has ended
Classified == call.fn = "calculateReleaseState" /\ call.pc # "called"

\* C16: for every codeFreeze, release, isComplete and now with release >
\* codeFreeze, calculateReleaseState returns one of SCHEDULED, CODE_FREEZE,
\* RELEASE_DAY, RELEASED and DELAYED, and does not throw
C16_ClassifierTotal ==
  (Classified /\ call.release > call.codeFreeze) =>
    /\ call.pc = "returned"
    /\ call.out \in {SCHEDULED, CODE_FREEZE, RELEASE_DAY, RELEASED, DELAYED}

\* a call has ended for a code freeze and a release that are less than a day
\* apart and both less than a day ago
C16_Witness ==
  /\ Classified
  /\ call.release > call.codeFreeze
  /\ call.release <= now
  /\ now - call.codeFreeze < MsPerDay


\* Math.ceil of the days from now to the instant
daysUntil(instant) == CeilDays(instant - now)

C18_SameInstantRaises ==
  (Classified /\ call.codeFreeze = now /\ call.release = now) =>
    (call.pc = "raised" /\ call.out = Indeterminate)

\* a call with codeFreeze = release = now has ended
C18_Witness ==
  Classified /\ call.codeFreeze = now /\ call.release = now


(***************************************************************************)
(* Properties of the library metadata                                      *)
(***************************************************************************)
\* getLibraryMetadata has returned
Reconciled == call.fn = "getLibraryMetadata" /\ call.pc = "returned"

\* the call made with an empty manifest and a change map that holds one
\* library with no change
EmptyManifestEmptyChanges ==
  /\ call.libraries = <<>>
  /\ call.changesByLibraryName = <<[k |-> LibB, v |-> <<>>]>>

RootOf(name) == SubSeq(name, 1, Len(name) - Len(SlashKtx))

\* C20: after filterOutKtx and mergeKtxIntoRoot no name that ends in "/ktx"
\* is a key of the change map, a library name or a key of the metadata, and
\* the changes of each such name of the report follow the changes the
\* report had for its root, in the change list of the root, which is the
\* name without the suffix
C20_CompanionsFolded ==
  Reconciled =>
    /\ \A i \in DOMAIN call.libraryChanges :
         ~EndsWith(call.libraryChanges[i].k, SlashKtx)
    /\ \A i \in DOMAIN call.libraryNames : ~EndsWith(call.libraryNames[i], SlashKtx)
    /\ \A i \in DOMAIN call.libraryMetadata :
         ~EndsWith(call.libraryMetadata[i].k, SlashKtx)
    /\ \A i \in DOMAIN call.changesByLibraryName :
         LET companion == call.changesByLibraryName[i].k
             root == RootOf(companion) IN
         EndsWith(companion, SlashKtx) =>
           /\ Has(call.libraryChanges, root)
           /\ Get(call.libraryChanges, root) =
                (IF Has(call.changesByLibraryName, root)
                 THEN Get(call.changesByLibraryName, root) ELSE <<>>)
                  \o call.changesByLibraryName[i].v

\* getLibraryMetadata has returned for a report that has changes under the
\* ktx module of a library and under that of a library in a directory
C20_Witness ==
  /\ Reconciled
  /\ Has(call.changesByLibraryName, LibA \o SlashKtx)
  /\ Has(call.changesByLibraryName, LibA \o <<"/">> \o LibB \o SlashKtx)


\* a call of parseGradlePropertiesForVersion that has returned or thrown
Parsed ==
  /\ call.fn = "parseGradlePropertiesForVersion"
  /\ call.pc \in {"returned", "raised"}

\* C21: parseGradlePropertiesForVersion returns, trimmed, everything that
\* follows the first "=" of the first line that is not a comment and starts
\* with "version": for "version=7=8=9" it returns "7=8=9"
C21_VersionIsAllAfterEquals ==
  Parsed =>
    LET version == parseGradlePropertiesForVersionBySplit(call.content) IN
    version.ok => call.pc = "returned" /\ call.out = version.v

\* the call for "version=7=8=9" has returned
C21_Witness ==
  /\ Parsed
  /\ call.content = VersionWord \o <<"=", "7", "=", "8", "=", "9">>
  /\ call.pc = "returned"


\* the releases of the addReleases request in progress have a document each
NewReleasesStored ==
  \A i \in DOMAIN req.body :
    LET releaseId == getReleaseID(releases, req.body[i].releaseName)
    IN  releaseId.ok /\ releaseId.v # ""

\* C22: an addReleases request whose releases are stored is answered 200 and
\* nothing else, when every synchronisation it started has returned or
\* raised: one that raises does not change the answer, and does not keep
\* the synchronisation of another release of the request from returning.
C22_SyncFailuresAnswer200 == [][
  (req.kind = "addReleases" /\ req.phase = "sync" /\ req' # req) =>
    /\ NewReleasesStored
    /\ req'.phase = "done"
    /\ req'.status = 200
    /\ \A t \in DOMAIN req.body : sync[t].pc \in {"returned", "raised"}
  ]_vars

\* a request for two releases is about to be answered: the synchronisation
\* of one has raised and that of the other has returned
C22_Witness ==
  /\ req.kind = "addReleases" /\ req.phase = "sync"
  /\ Len(req.body) = 2
  /\ NewReleasesStored
  /\ \E t, u \in Tasks : sync[t].pc = "raised" /\ sync[u].pc = "returned"

\* the step by which addReleases answers a request for the releases of body,
\* one of which has the name of a release of the store
RejectsExistingName(body) ==
  /\ AddReleasesCheckOf({body})
  /\ \E i \in DOMAIN body : Where(releases, "releaseName", body[i].releaseName) # {}

\* C23 as the specification has it: a request to create releases, one of
\* which has the name of a release of the store, is answered 404 and
\* writes nothing.
C23_ExistingNameAnswered404 == [][
  \A body \in NewReleaseLists :
    RejectsExistingName(body) =>
      req'.phase = "done" /\ req'.status = 404 /\ store' = store
  ]_vars

\* C23: a request to create releases, one of which has the name of a release
\* of the store, is answered 400 and writes nothing: no release of the
\* request is stored, those with a new name included.
C23_ExistingNameAnswered400 == [][
  \A body \in NewReleaseLists :
    RejectsExistingName(body) =>
      req'.phase = "done" /\ req'.status = 400 /\ store' = store
  ]_vars

\* a request for M1 and M2 was answered that M2 exists, and M1 is not stored
C23_Witness ==
  /\ req = RespondWith("addReleases", 400, AlreadyExists(Release2.releaseName))
  /\ last = ""
  /\ Where(releases, "releaseName", Release2.releaseName) # {}
  /\ Where(releases, "releaseName", Release1.releaseName) = {}

\* the document of releaseId holds the fields of the release of a request
Patched(rels, releaseId, release) ==
  /\ releaseId \in DOMAIN rels
  /\ LET with == convertReleaseDatesToTimestamps(<<release>>)[1] IN
       /\ rels[releaseId].releaseName = with.releaseName
       /\ rels[releaseId].releaseBranchName = with.releaseBranchName
       /\ rels[releaseId].codeFreezeDate = with.codeFreezeDate
       /\ rels[releaseId].releaseDate = with.releaseDate

\* C24: a modifyRelease request for a release of the store, with a release
\* object that passes validation, first writes the fields of the object to
\* the document of the release and then synchronises the release; it is not
\* answered before.
C24_ValidPatchApplied == [][
  \A releaseId \in ReleaseIds, release \in {Release1, Release2} :
    (ModifyReleaseWith(releaseId, release) /\ releaseExists(releases, releaseId)) =>
      /\ Patched(releases', releaseId, release)
      /\ req'.phase = "sync"
  ]_vars

\* a modifyRelease request was answered 500 while a release is stored, and
\* nothing is being synchronised
C24_Witness ==
  /\ req = Respond("modifyRelease", 500)
  /\ releases # <<>>
  /\ \A t \in Tasks : sync[t].pc = "idle"

\* C25: a webhook request whose signature verifies is answered 200 and
\* nothing else, whatever its event and payload, and whether the
\* synchronisation it starts returns or raises.
C25_VerifiedWebhookAnswered200 == [][
  (CheckRunEvent \/ PullRequestEvent \/ PullRequestRespond) =>
    (req'.phase = "done" => req'.status = 200)
  ]_vars

\* a webhook request whose signature verified was answered 500
C25_Witness == req = Respond("githubWebhook", 500)

\* the synchronisation a pull_request event started has raised, and the
\* event is about to be answered
C25_SyncFailureLogged ==
  /\ req.kind = "githubWebhook" /\ req.phase = "sync"
  /\ sync[1].pc = "raised"

\* C26: a webhook request whose signature does not match its body is
\* answered 401, and the step that answers 401 to a webhook request leaves
\* every collection of the store as it was, calls the host for nothing and
\* starts no synchronisation.
C26_UnsignedRejectedUnprocessed == [][
  /\ WebhookUnsigned => req' = Respond("githubWebhook", 401)
  /\ (req'.kind = "githubWebhook" /\ req'.status = 401 /\ req' # req) =>
       /\ store' = store
       /\ sync' = sync
       /\ del' = del
       /\ host' = host
  ]_vars

\* a webhook request was answered 401 while the store holds a release, its
\* libraries and its check runs, and nothing is being synchronised
C26_Witness ==
  /\ req = Respond("githubWebhook", 401)
  /\ releases # <<>> /\ libraries # <<>> /\ checks # <<>>
  /\ \A t \in Tasks : sync[t].pc = "idle"

C27_WitnessModify ==
  /\ req.kind = "modifyRelease" /\ req.status = 400
  /\ req.body = validateRelease(ReleaseOdd)
  /\ releases # <<>>

\* C28: no two documents of the releases collection have the same name,
\* whatever createReleases, modifyRelease and deleteRelease requests were
\* handled and however their steps were interleaved: getReleaseID finds at
\* most one release for a name.
C28_ReleaseNamesUnique ==
  \A a, b \in DOMAIN releases :
    a # b => releases[a].releaseName # releases[b].releaseName

\* two releases of the store have the name M1, and getReleaseID throws
C28_Witness ==
  /\ Cardinality(Where(releases, "releaseName", Release1.releaseName)) = 2
  /\ ~getReleaseID(releases, Release1.releaseName).ok

\* the releases, libraries, changes and checks that one invocation of
\* syncReleaseState for releaseId leaves when it is called with the store
\* pre, reads branch data b, is alone and returns: the writes of lines
\* 546-564 of handlers.js, made in their order
SyncedStore(pre, b, releaseId, nowMs) ==
  LET releaseData == pre[1][releaseId]
      libraryNames == filterOutKtx(processLibraryNames(b.config))
      libraryChanges == mergeKtxIntoRoot(b.report)
      libraryMetadata == getLibraryMetadata(b, libraryNames, libraryChanges).v
      oldLibraries == [id \in Where(pre[2], "releaseID", releaseId) |-> pre[2][id]]
      libs == Commit(pre[2],
                     batchSetLibrariesForRelease(libraryMetadata, releaseId)
                       \o batchDeleteOptedOutLibraries(oldLibraries, libraryMetadata))
      chks == Commit(pre[4],
                     batchDeleteReleaseChecks(Where(pre[4], "releaseID", releaseId))
                       \o batchSetReleaseChecks(checkRunList(b.check_runs), releaseId))
      oldChanges == [id \in Where(pre[3], "releaseID", releaseId) |-> pre[3][id]]
      keys == Keys(libraryChanges)
      sets == [i \in DOMAIN keys |->
                 batchSetReleaseChanges(Get(libraryChanges, keys[i]),
                                        getLibraryId(libs, keys[i]).v, releaseId).v]
      chgs == Commit(pre[3],
                     batchDeleteOldChanges(oldChanges, libraryChanges) \o Flatten(sets))
      f == [IdleFrame EXCEPT
              !.releaseData = releaseData,
              !.releaseState = calculateReleaseState(releaseData.codeFreezeDate,
                                   releaseData.releaseDate, isComplete(releaseData), nowMs),
              !.buildArtifactWorkflow = getBuildArtifactsWorkflow(b).v]
  IN  <<UpdateDoc(pre[1], releaseId, updatedReleaseData(f)), libs, chgs, chks>>

\* the step by which the invocation of task t returns after it has written
\* libraries, checks, changes and the release
ReturnsSynced(t) ==
  /\ sync[t].pc = "release"
  /\ sync'[t].pc = "returned"

\* C29: an invocation of syncReleaseState that returns leaves the releases,
\* libraries, changes and checks that SyncedStore gives for the store it was
\* called with; and when an earlier invocation for the same release was
\* ended by a rejection of the store after its libraries were committed and
\* before its changes were, with the clock and the repository as they are
\* now, the four collections are those an invocation called with the store
\* of that earlier one would have left had it not been stopped.
C29_RerunRecovers == [][
  \A t \in Tasks :
    ReturnsSynced(t) =>
      LET f == sync[t]
          b == host[f.releaseData.releaseBranchName] IN
      /\ <<releases', libraries', changes', checks'>>
           = SyncedStore(f.pre, b, f.releaseId, now)
      /\ (/\ stopped.releaseId = f.releaseId
          /\ stopped.now = now
          /\ stopped.host = host) =>
           <<releases', libraries', changes', checks'>>
             = SyncedStore(stopped.pre, b, f.releaseId, now)
  ]_vars

\* an invocation has returned for the release whose earlier invocation was
\* stopped with libraries committed, the clock and the repository being the
\* same; the first of the two found libraries of an earlier version, and
\* the store holds the error of the stop
C29_Witness ==
  \E t \in Tasks :
    /\ sync[t].pc = "returned"
    /\ "changes" \in Range(sync[t].trace)
    /\ stopped.releaseId = sync[t].releaseId
    /\ stopped.now = now
    /\ stopped.host = host
    /\ stopped.pre[2] # <<>>
    /\ sync[t].pre[2] # stopped.pre[2]
    /\ BagCardinality(releaseError) > 0

\* the documents of a collection that carry the releaseID
RowsOf(coll, releaseId) ==
  [id \in Where(coll, "releaseID", releaseId) |-> coll[id]]

\* C30: when the synchronisations that an addReleases request started for
\* its releases have all returned, the libraries, changes and checks that
\* carry the id of a release are those an invocation for that release alone
\* would have left, whatever the branches of the releases have in common.
C30_ParallelSyncsIndependent ==
  (/\ req.kind = "addReleases" /\ req.phase = "sync"
   /\ \A t \in DOMAIN req.body :
        sync[t].pc = "returned" /\ "changes" \in Range(sync[t].trace)) =>
    \A t \in DOMAIN req.body :
      LET f == sync[t]
          alone == SyncedStore(f.pre, host[f.releaseData.releaseBranchName],
                               f.releaseId, now) IN
      /\ RowsOf(libraries, f.releaseId) = RowsOf(alone[2], f.releaseId)
      /\ RowsOf(changes, f.releaseId) = RowsOf(alone[3], f.releaseId)
      /\ RowsOf(checks, f.releaseId) = RowsOf(alone[4], f.releaseId)

\* the synchronisations of two releases created by one request have both
\* returned, and no library carries the id of the first release
C30_Witness ==
  /\ req.kind = "addReleases" /\ req.phase = "sync"
  /\ Len(req.body) = 2
  /\ \A t \in Tasks : sync[t].pc = "returned" /\ "changes" \in Range(sync[t].trace)
  /\ \E t \in Tasks : RowsOf(libraries, sync[t].releaseId) = <<>>

\* release.field as validateRelease reads it from the object it is given:
\* a property the object does not have is undefined, which "!release.field"
\* takes like an empty one
ReadAsRelease(data) ==
  [releaseName |-> IF "releaseName" \in DOMAIN data THEN data.releaseName ELSE <<>>,
   releaseOperator |->
     IF "releaseOperator" \in DOMAIN data THEN data.releaseOperator ELSE "",
   codeFreezeDate |->
     IF "codeFreezeDate" \in DOMAIN data THEN data.codeFreezeDate ELSE "",
   releaseDate |-> IF "releaseDate" \in DOMAIN data THEN data.releaseDate ELSE "",
   releaseBranchName |->
     IF "releaseBranchName" \in DOMAIN data THEN data.releaseBranchName ELSE ""]

\* C31: when updateRelease is called with a patch for which validateRelease
\* returns errors, the patch is not applied and the releases collection is
\* left as it was.
C31_InvalidPatchNotApplied == [][
  \A t \in Tasks :
    (/\ sync[t].pc = "release"
     /\ sync'[t].pc # "release"
     /\ validateRelease(ReadAsRelease(updatedReleaseData(sync[t]))) # <<>>) =>
      releases' = releases
  ]_vars

\* an invocation has returned after updateRelease wrote a patch for which
\* validateRelease returns errors: the release document carries the state
\* and the build-artifact fields of the patch
C31_Witness ==
  \E t \in Tasks :
    LET f == sync[t]
        patch == updatedReleaseData(f) IN
    /\ f.pc = "returned"
    /\ "release" \in Range(f.trace)
    /\ validateRelease(ReadAsRelease(patch)) # <<>>
    /\ f.releaseId \in DOMAIN releases
    /\ \A k \in DOMAIN patch : releases[f.releaseId][k] = patch[k]
    /\ f.pre[1][f.releaseId].state # patch.state

\* the Change row id of the collection chgs names a Library row of libs
\* that carries the release id of the Change row
RefersToLibrary(chgs, libs, id) ==
  /\ chgs[id].libraryID \in DOMAIN libs
  /\ libs[chgs[id].libraryID].releaseID = chgs[id].releaseID

\* an invocation of syncReleaseState has returned after its last write and
\* none is in progress
SyncCompleted ==
  /\ Running = {}
  /\ \E t \in Tasks : sync[t].pc = "returned" /\ "release" \in Range(sync[t].trace)

\* C32: in a store state reached after a completed sync, the libraryID of
\* every Change row names a Library row that exists, and that Library row
\* carries the releaseID of the Change row.
C32_ChangesReferToLibraries ==
  SyncCompleted => \A id \in DOMAIN changes : RefersToLibrary(changes, libraries, id)

\* after a completed sync a Change row names a Library row that exists and
\* carries the id of another release
C32_Witness ==
  /\ SyncCompleted
  /\ \E id \in DOMAIN changes :
       /\ changes[id].libraryID \in DOMAIN libraries
       /\ libraries[changes[id].libraryID].releaseID # changes[id].releaseID

\* the Library rows of libs that carry the release id, are flagged as a
\* library group release and are named by a Change row of chgs that carries
\* the release id
GroupReleasesWithChanges(libs, chgs, releaseId) ==
  {l \in Where(libs, "releaseID", releaseId) :
     /\ libs[l].libraryGroupRelease
     /\ \E c \in Where(chgs, "releaseID", releaseId) : chgs[c].libraryID = l}

\* C33: when an invocation of syncReleaseState returns after its last write,
\* no Library row of its release with the libraryGroupRelease flag set is
\* named by a Change row of that release.
C33_GroupReleaseHasNoChanges == [][
  \A t \in Tasks :
    ReturnsSynced(t) =>
      GroupReleasesWithChanges(libraries', changes', sync[t].releaseId) = {}
  ]_vars

\* an invocation has returned after its last write, and a Library row of
\* its release that an earlier invocation flagged as a library group
\* release is named by a Change row of the release
C33_Witness ==
  \E t \in Tasks :
    /\ sync[t].pc = "returned"
    /\ "release" \in Range(sync[t].trace)
    /\ Running = {}
    /\ GroupReleasesWithChanges(libraries, changes, sync[t].releaseId) # {}
    /\ GroupReleasesWithChanges(sync[t].pre[2], sync[t].pre[3], sync[t].releaseId) = {}

\* the query of the hook useReleasingLibraries: the ids of the documents of
\* libraries whose releaseID is the release and whose optedOut is false; a
\* document without the field matches no equality on it
useReleasingLibraries(libs, releaseId) ==
  Where(libs, "releaseID", releaseId) \cap Where(libs, "optedOut", FALSE)

\* the step by which updateLibrariesForRelease commits its batch
CommitsLibraries(t) ==
  /\ sync[t].pc = "persist" /\ sync[t].libPc = "commit"
  /\ sync'[t].libPc = "done"

\* C34: when updateLibrariesForRelease commits, the Library row of every
\* entry of the metadata carries the optedOut flag of the entry, and the
\* query for the libraries of the release with optedOut false returns the
\* row exactly when the entry is not opted out.
C34_OptedOutStored == [][
  \A t \in Tasks :
    CommitsLibraries(t) =>
      \A i \in DOMAIN sync[t].libraryMetadata :
        LET entry == sync[t].libraryMetadata[i]
            id == encodeLibraryDocId(entry.k, entry.v.updatedVersion) IN
        /\ id \in DOMAIN libraries'
        /\ "optedOut" \in DOMAIN libraries'[id]
        /\ libraries'[id].optedOut = entry.v.optedOut
        /\ id \in useReleasingLibraries(libraries', sync[t].releaseId)
             <=> ~entry.v.optedOut
  ]_vars

\* a sync has returned for a release whose metadata has a library that is
\* not opted out, its Library rows are stored, and the query for the
\* libraries of the release that are not opted out returns none
C34_Witness ==
  \E t \in Tasks :
    /\ sync[t].pc = "returned"
    /\ "release" \in Range(sync[t].trace)
    /\ \E i \in DOMAIN sync[t].libraryMetadata : ~sync[t].libraryMetadata[i].v.optedOut
    /\ Where(libraries, "releaseID", sync[t].releaseId) # {}
    /\ useReleasingLibraries(libraries, sync[t].releaseId) = {}

\* the flag a release document is stored with by releaseToFirestoreObject
StoredComplete(releaseData) ==
  "isReleased" \in DOMAIN releaseData /\ releaseData.isReleased

\* C35: when an invocation of syncReleaseState has returned after its last
\* write for a release that is stored with its completion flag true and
\* whose release date is at least a day in the past, the state of the
\* release is RELEASED.
C35_CompleteReleaseIsReleased ==
  \A t \in Tasks :
    LET f == sync[t] IN
    (/\ f.pc = "returned"
     /\ "release" \in Range(f.trace)
     /\ StoredComplete(f.releaseData)
     /\ CeilDays(f.releaseData.releaseDate - now) < 0) =>
      /\ f.releaseState = RELEASED
      /\ releases[f.releaseId].state = RELEASED

\* an invocation has returned for a release stored with its completion
\* flag true and a release date at least a day in the past, and the state
\* it has written is DELAYED
C35_Witness ==
  \E t \in Tasks :
    LET f == sync[t] IN
    /\ f.pc = "returned"
    /\ "release" \in Range(f.trace)
    /\ StoredComplete(f.releaseData)
    /\ CeilDays(f.releaseData.releaseDate - now) < 0
    /\ releases[f.releaseId].state = DELAYED

\* C36: a check_run event whose head branch is the branch of no release
\* leaves the checks collection as it is: no document is created and none
\* is modified.
C36_UntrackedCheckRunIgnored == [][
  \A id \in {"k1"}, branch \in Branches :
    (/\ getReleaseIdFromBranch(releases, branch) = ""
     /\ CheckRunEventOf(id, branch)) =>
      checks' = checks
  ]_vars

\* a check_run event has been answered while no release is stored, and the
\* checks collection holds a document that carries no release
C36_Witness ==
  /\ req.kind = "githubWebhook" /\ req.status = 200
  /\ releases = <<>>
  /\ \E id \in DOMAIN checks : "releaseID" \notin DOMAIN checks[id]

\* the fields of a check document that batchSetReleaseChecks writes and a
\* check_run event does not carry
StaticCheckFields == {"name", "outputTitle", "httpsUrl", "releaseID"}

\* C37: a check_run event for a check run whose document exists leaves the
\* name, outputTitle, httpsUrl and releaseID of the document as they were,
\* so that the document stays among the checks of its release, and leaves
\* every other document of checks as it was.
C37_CheckRunKeepsStaticFields == [][
  \A id \in {"k1"}, branch \in Branches :
    (id \in DOMAIN checks /\ CheckRunEventOf(id, branch)) =>
      /\ id \in DOMAIN checks'
      /\ \A fld \in StaticCheckFields \cap DOMAIN checks[id] :
           fld \in DOMAIN checks'[id] /\ checks'[id][fld] = checks[id][fld]
      /\ \A r \in ReleaseIds :
           id \in Where(checks, "releaseID", r) => id \in Where(checks', "releaseID", r)
      /\ \A other \in DOMAIN checks \ {id} :
           other \in DOMAIN checks' /\ checks'[other] = checks[other]
  ]_vars

\* a check_run event has been answered for a check run that a sync had
\* stored for a release: the release still has its other check, and the
\* document of the event carries no release any more
C37_Witness ==
  /\ req.kind = "githubWebhook" /\ req.status = 200
  /\ "k1" \in DOMAIN checks
  /\ "releaseID" \notin DOMAIN checks["k1"]
  /\ \E r \in DOMAIN releases : "k2" \in Where(checks, "releaseID", r)

\* the positions of an invocation from which its next step is a query or a
\* write of updateLibrariesForRelease, updateChecksForRelease,
\* updateChangesForRelease or updateRelease
Persisting == {"persist", "changes", "libraryId", "changesCommit", "release"}

\* the Library rows that updateLibrariesForRelease writes from the metadata
\* an invocation has built
LibraryRowsOf(f) ==
  Commit(<<>>, batchSetLibrariesForRelease(f.libraryMetadata, f.releaseId))

\* the commits of the Change rows of a collection that carry the release id
CommitsOf(chgs, releaseId) ==
  {chgs[c].commitID : c \in Where(chgs, "releaseID", releaseId)}

\* C38: no invocation of syncReleaseState waits for another: while another
\* invocation for the same release is among its own queries and writes of
\* the store, an invocation that has a batch to commit - its library rows,
\* its checks or its changes - or the release document to update can do so
\* as its next step.
C38_SyncsNotExcluded ==
  \A t \in Tasks : \A u \in Tasks \ {t} :
    (/\ sync[u].pc \in Persisting
     /\ sync[t].pc \in Persisting
     /\ sync[u].releaseId = sync[t].releaseId) =>
      /\ (sync[t].pc = "persist" /\ sync[t].libPc = "commit") =>
           ENABLED LibrariesCommit(t)
      /\ (sync[t].pc = "persist" /\ sync[t].chkPc = "commit") =>
           ENABLED ChecksCommit(t)
      /\ sync[t].pc = "changesCommit" => ENABLED ChangesCommit(t)
      /\ sync[t].pc = "release" => ENABLED SyncUpdateRelease(t)

\* two invocations for the same release have both returned after their
\* last write, having read different data from the branch: the Library rows
\* of the release are those written from the metadata of the one and the
\* Change rows, of which there are some, are the commits reported to the
\* other, and neither holds for the two invocations exchanged
C38_Witness ==
  \E t \in Tasks : \E u \in Tasks \ {t} :
    LET f == sync[t]
        g == sync[u] IN
    /\ f.pc = "returned" /\ "release" \in Range(f.trace)
    /\ g.pc = "returned" /\ "release" \in Range(g.trace)
    /\ f.releaseId = g.releaseId
    /\ RowsOf(libraries, f.releaseId) = LibraryRowsOf(f)
    /\ CommitsOf(changes, f.releaseId) = getCommitIdsFromChanges(g.libraryChanges)
    /\ RowsOf(libraries, f.releaseId) # LibraryRowsOf(g)
    /\ CommitsOf(changes, f.releaseId) # getCommitIdsFromChanges(f.libraryChanges)
    /\ CommitsOf(changes, f.releaseId) # {}

\* C39: in an invocation of syncReleaseState that is the only one of its
\* request, from the call of updateChangesForRelease to its commit every
\* key of the folded change map has a Library row, and no step of the
\* invocation raises the unknown-library error.
C39_LibrariesCoverChanges == [][
  \A t \in Tasks :
    Alone(t) =>
      /\ sync[t].pc \in {"changes", "libraryId", "changesCommit"} =>
           \A i \in DOMAIN sync[t].libraryChanges :
             getLibraryId(libraries, sync[t].libraryChanges[i].k).ok
      /\ sync'[t].err # NoLibraryError
  ]_vars

\* an invocation that is the only one of its request has returned after
\* updateChangesForRelease committed, for a change map with a key that the
\* manifest does not list
C39_Witness ==
  \E t \in Tasks :
    /\ Alone(t)
    /\ sync[t].pc = "returned"
    /\ "changes" \in Range(sync[t].trace)
    /\ \E i \in DOMAIN sync[t].libraryChanges :
         sync[t].libraryChanges[i].k \notin Range(sync[t].libraryNames)

\* the batch of a deleteRelease request has committed while the invocation
\* of task t was in progress for the release it deleted - the invocation
\* had read the release document, which is gone - and no invocation is in
\* progress any more
DeletedDuring(t) ==
  /\ del.phase = "done"
  /\ Running = {}
  /\ sync[t].pc \in {"returned", "raised"}
  /\ sync[t].pre # <<>>
  /\ releaseExists(sync[t].pre[1], sync[t].releaseId)
  /\ ~releaseExists(releases, sync[t].releaseId)

\* C40: when a deleteRelease request for a release was handled while an
\* invocation of syncReleaseState for that release was in progress, then
\* once both have finished no Library, Change or CheckRun document carries
\* the id of the release (its Release document is gone).
C40_NoOrphansAfterDeleteDuring ==
  \A t \in Tasks :
    DeletedDuring(t) =>
      /\ Where(libraries, "releaseID", sync[t].releaseId) = {}
      /\ Where(changes, "releaseID", sync[t].releaseId) = {}
      /\ Where(checks, "releaseID", sync[t].releaseId) = {}

\* a release was deleted while it was synchronised, both have finished,
\* and Library, Change and CheckRun documents carry the id of the release
C40_Witness ==
  \E t \in Tasks :
    /\ DeletedDuring(t)
    /\ Where(libraries, "releaseID", sync[t].releaseId) # {}
    /\ Where(changes, "releaseID", sync[t].releaseId) # {}
    /\ Where(checks, "releaseID", sync[t].releaseId) # {}
====
